---------------------------- MODULE Spec2Model ----------------------------
(***************************************************************************)
(* A model of the Arachne per-core scheduler (src/Arachne.cc): the slot    *)
(* table, the packed occupancy word, dispatch(), the exit path of          *)
(* schedulerMainLoop(), yield, sleep, signal and join.                     *)
(*                                                                         *)
(* Every core (kernel thread) is a sequential process with a program       *)
(* counter; the threads of other cores and non-Arachne threads that call   *)
(* createThread, signal and shutDown are the processes of Ext.  Each       *)
(* action is one access to shared memory together with the local           *)
(* computation around it.                                                  *)
(***************************************************************************)
EXTENDS Integers, Naturals, Sequences, FiniteSets, TLC

(* ------------------------------ bounds -------------------------------- *)

\* Number of cores (kernel threads) started by init.
NumCores == 2

\* Slots per core (Arachne.h sets 56; the model keeps the table small).
maxThreadsPerCore == 2

\* Number of concurrent callers outside the modelled cores.
NumExt == 2

\* createThread calls in one behaviour.
MaxCreates == 3

\* createThread calls in a behaviour of the signalling workload.
SigCreates == 2

\* createThread calls in a behaviour of the joining workload.
JoinCreates == 2

\* createThread calls that find a free slot, in the round trip of yields.
YieldCreates == 3

\* createThread calls that find a free slot, in the runs that end in shutDown.
ShutCreates == 2

\* Largest maxNumCores, and calls of init() in a behaviour.
MaxNumCores == 3
MaxInits == 2

\* maxNumCores of the CoreLoadEstimator.
EstCores == 2

\* Largest increment of a statistics counter between two collections.
MaxStat == 2

\* Cycles per nanosecond of Cycles::fromNanoseconds.
CyclesPerNanosecond == 2

\* Longest argument vector handed to init, the program name included.
MaxArgc == 4

\* The earlier scheduler: tasks put into the task box of the core, contexts
\* of the core, calls of signal and of sleep, and the range of its cycle
\* counter.
MaxFills == 2
MaxContexts == 3
MaxOldSignals == 1
MaxOldSleeps == 2
MaxCycles == 3

\* createThread calls in the ConditionVariable specification.
CvCreates == 3

\* createThread calls and outside signals in the SleepLock specifications.
LockCreates == 3
LockSignals == 1

\* signal calls from outside the cores in a behaviour: of the signalling
\* workload, and of the joining workload.
MaxSignals == 2

JoinSignals == 1

\* Longest queue of joiners on one thread (a joiner woken early stays queued).
MaxWaiters == 2

\* Largest value of the cycle counter, and the longest sleep in cycles.
MaxClock == 2

MaxSleep == 2

Cores == 0 .. (NumCores - 1)

Slots == 0 .. (maxThreadsPerCore - 1)

Ext == 1 .. NumExt

\* Generations start at 1 (ThreadContext constructor) and grow by one per exit.
MaxGen == MaxCreates + 1

(* ----------------------------- sentinels ------------------------------ *)

\* ~0 and ~0 - 1 of a 64-bit word: above every value the cycle counter takes.
UNOCCUPIED == MaxClock + MaxSleep + 2

BLOCKED == UNOCCUPIED - 1

\* The width of MaskAndCount.numOccupied (an 8-bit field).
CountModulus == 256

ThreadIds == [core : Cores, slot : Slots, gen : 1 .. MaxGen]

\* Line 163.
CORE_INCREASE_THRESHOLD == 3

\* A NULL ThreadContext pointer (SleepLock::owner when the lock is free).
NoContext == <<>>

NullThread == [core |-> -1, slot |-> -1, gen |-> 0]

ThreadId(c, k, g) == [core |-> c, slot |-> k, gen |-> g]

(* ------------------------------- state -------------------------------- *)

VARIABLES
    \* shared memory
    occupied,            \* occupiedAndCount[c].occupied, as a set of slots
    numOccupied,         \* occupiedAndCount[c].numOccupied
    wakeupTimeInCycles,  \* ThreadContext::wakeupTimeInCycles of slot k of core c
    generation,          \* ThreadContext::generation
    publicPriorityMasks, \* per core, as a set of slots
    joinLock,            \* ThreadContext::joinLock (TRUE = held)
    blockedThreads,      \* ThreadContext::joinCV.blockedThreads
    shutdown,            \* the global flag
    clock,               \* Cycles::rdtsc()
    \* thread_local state of each kernel thread
    pc,
    loadedContext,
    privatePriorityMask,
    nextCandidateIndex,
    currentCycles,       \* locals of dispatch()
    mask,
    currentIndex,
    slotMap,             \* oldSlotMap of the exit path's CAS loop
    sigId,               \* signal(id) called from notifyOne: its argument
    sigOld,              \*   and its oldWakeupTime
    \* per context: what is saved on its stack
    caller,              \* which function the context called dispatch() from
    joinId,              \* the argument of the join() the context is in
    sleepUntil,          \* cycle counter at the call of sleep() + cycles asked
    owed,                \* threads runnable at the context's last yield() and
                         \*   not resumed since
    \* callers outside the cores
    epc,
    eCore,               \* createThread: target core
    eMap,                \* createThread: oldSlotMap
    eIndex,              \* createThread: the slot reserved
    eId,                 \* signal: its argument
    eOld,                \* signal: oldWakeupTime
    eStale,              \* signal: the thread named by its argument had
                         \*   exited when signal was called
    issued,              \* the ThreadIds createThread has returned
    created,             \* createThread calls so far that found a core not full
    signalled,           \* signal calls from outside the cores so far
    \* one SleepLock
    owner,               \* SleepLock::owner: a context, or NoContext for NULL
    lockQueue,           \* SleepLock::blockedThreads
    blockedThreadsLock,  \* SleepLock::blockedThreadsLock (TRUE = held)
    holding,             \* per context: lock() or try_lock() has returned
                         \*   success and unlock() has not been called since
    \* the arrays of the library and its kernel threads
    initialized,
    numCores,
    numCoresPrecursor,
    maxNumCores,
    coreChangeMutex,     \* 0 = free, otherwise the kernel thread holding it
    kernelThreads,       \* sequence of [id, st, iter]: kernelThreadId, position
                         \*   in the code, numIterations of its last dispatch
    kernelThreadStacks,  \* per-core vectors, each entry tagged with the
    allThreadContexts,   \*   init() and the core it was made for
    occupiedAndCount,
    priorityMaskVector,  \* the vector publicPriorityMasks itself
    mainPc,              \* the main application thread
    joinIndex,           \* i of the join loop of waitForTermination
    inits,               \* calls of init() so far
    \* one CoreLoadEstimator
    previousStats,         \* CoreLoadEstimator::previousStats
    utilizationThresholds, \* the array, index 0 .. maxNumCores - 1
    estimatorMaxNumCores,  \* CoreLoadEstimator::maxNumCores
    thresholdWritten,      \* per index: estimate has stored an element there
    currentStats,          \* the statistics collected by the last call
    curActiveCores,        \* the argument of the last call of estimate
    lastCall,              \* "none", "estimate" or "reset"
    estimateResult,        \* what the last call of estimate returned
    \* the command line handed to init
    argv,                \* the array, each string a sequence of characters
    argc,                \* *argcp
    argvGiven,           \* the array as the caller passed it
    stackSize,
    optPc,               \* "start" before parseOptions, "parsed" after it
    \* one core of the earlier scheduler (task boxes and sleep queues)
    running,                  \* the context the core executes in
    possiblyRunnableThreads,  \* possiblyRunnableThreads[kernelThreadId]
    sleepQueue,               \* sleepQueues[kernelThreadId]
    taskBoxState,             \* taskBoxes[kernelThreadId].data.loadState
    contextOccupied,          \* UserContext::occupied
    wakeup,                   \* UserContext::wakeup
    wakeUpTimeInCycles,       \* UserContext::wakeUpTimeInCycles
    numContexts,              \* UserContexts allocated so far
    resumeAt,                 \* per context: where its execution continues
    calledFrom,               \* per context: the caller of its innermost
                              \*   schedulerMainLoop ("top", "sleep", "block")
    loopIndex,                \* per context: i of the loop of line 257
    sleepCalled,              \* per context: it is inside sleep()
    filled,                   \* tasks put into the task box so far
    signalsSent,              \* calls of signal so far
    sleeps,                   \* calls of sleep so far
    cycles                    \* Cycles::rdtsc()

sharedVars == <<occupied, numOccupied, wakeupTimeInCycles, generation,
                publicPriorityMasks, joinLock, blockedThreads, shutdown, clock>>

dispVars == <<currentCycles, mask, currentIndex>>

coreVars == <<pc, loadedContext, privatePriorityMask, nextCandidateIndex,
              currentCycles, mask, currentIndex, slotMap, sigId, sigOld>>

ctxVars == <<caller, joinId, sleepUntil, owed>>

extVars == <<epc, eCore, eMap, eIndex, eId, eOld, eStale, issued, created,
             signalled>>

lockVars == <<owner, lockQueue, blockedThreadsLock, holding>>

lifeVars == <<initialized, numCores, numCoresPrecursor, maxNumCores, coreChangeMutex,
              kernelThreads, kernelThreadStacks, allThreadContexts, occupiedAndCount,
              priorityMaskVector, mainPc, joinIndex, inits>>

libVars == <<lockVars, lifeVars>>

estVars == <<previousStats, utilizationThresholds, estimatorMaxNumCores,
             thresholdWritten, currentStats, curActiveCores, lastCall, estimateResult>>

optVars == <<argv, argc, argvGiven, stackSize, optPc>>

oldVars == <<running, possiblyRunnableThreads, sleepQueue, taskBoxState,
             contextOccupied, wakeup, wakeUpTimeInCycles, numContexts, resumeAt,
             calledFrom, loopIndex, sleepCalled, filled, signalsSent, sleeps, cycles>>

auxVars == <<estVars, optVars, oldVars>>

vars == <<sharedVars, coreVars, ctxVars, extVars, libVars, auxVars>>

\* MaskAndCount as a record.
MaskAndCount(occ, num) == [occupied |-> occ, numOccupied |-> num]

NoMap == MaskAndCount({}, 0)

\* ffsll(~occupied) - 1: the lowest slot whose bit is clear.
LowestZero(occ) ==
    IF Slots \ occ = {} THEN maxThreadsPerCore
    ELSE CHOOSE k \in Slots \ occ : \A j \in Slots \ occ : k <= j

\* ffsll(m) - 1 for a non-empty mask.
LowestSet(m) == CHOOSE k \in m : \A j \in m : k <= j

InitSched ==
    /\ occupied = [c \in Cores |-> {}]
    /\ numOccupied = [c \in Cores |-> 0]
    /\ wakeupTimeInCycles = [c \in Cores |-> [k \in Slots |-> UNOCCUPIED]]
    /\ generation = [c \in Cores |-> [k \in Slots |-> 1]]
    /\ publicPriorityMasks = [c \in Cores |-> {}]
    /\ joinLock = [c \in Cores |-> [k \in Slots |-> FALSE]]
    /\ blockedThreads = [c \in Cores |-> [k \in Slots |-> <<>>]]
    /\ shutdown = FALSE
    /\ clock = 0
    /\ pc = [c \in Cores |-> "dispatch"]
    /\ loadedContext = [c \in Cores |-> 0]
    /\ privatePriorityMask = [c \in Cores |-> {}]
    /\ nextCandidateIndex = [c \in Cores |-> 0]
    /\ currentCycles = [c \in Cores |-> 0]
    /\ mask = [c \in Cores |-> {}]
    /\ currentIndex = [c \in Cores |-> 0]
    /\ slotMap = [c \in Cores |-> NoMap]
    /\ sigId = [c \in Cores |-> NullThread]
    /\ sigOld = [c \in Cores |-> 0]
    /\ caller = [c \in Cores |-> [k \in Slots |-> IF k = 0 THEN "main" ELSE "fresh"]]
    /\ joinId = [c \in Cores |-> [k \in Slots |-> NullThread]]
    /\ sleepUntil = [c \in Cores |-> [k \in Slots |-> 0]]
    /\ owed = [c \in Cores |-> [k \in Slots |-> {}]]
    /\ epc = [e \in Ext |-> "idle"]
    /\ eCore = [e \in Ext |-> 0]
    /\ eMap = [e \in Ext |-> NoMap]
    /\ eIndex = [e \in Ext |-> 0]
    /\ eId = [e \in Ext |-> NullThread]
    /\ eOld = [e \in Ext |-> 0]
    /\ eStale = [e \in Ext |-> FALSE]
    /\ issued = {}
    /\ created = 0
    /\ signalled = 0

\* A SleepLock after construction: no owner, nobody queued, guard free.
InitLock ==
    /\ owner = NoContext
    /\ lockQueue = <<>>
    /\ blockedThreadsLock = FALSE
    /\ holding = [c \in Cores |-> [k \in Slots |-> FALSE]]

\* The element init() number i pushes for core c onto each per-core vector.
Entry(i, c) == [init |-> i, core |-> c]

\* The library after init() with numCores = n and maxNumCores = m, its n
\* kernel threads running threadMain.
InitLife(n, m) ==
    /\ initialized = TRUE
    /\ numCores = n
    /\ numCoresPrecursor = n
    /\ maxNumCores = m
    /\ coreChangeMutex = 0
    /\ kernelThreads = [i \in 1 .. n |-> [id |-> i - 1, st |-> "run", iter |-> 0]]
    /\ kernelThreadStacks = [i \in 1 .. n |-> Entry(1, i - 1)]
    /\ allThreadContexts = [i \in 1 .. n |-> Entry(1, i - 1)]
    /\ occupiedAndCount = [i \in 1 .. n |-> Entry(1, i - 1)]
    /\ priorityMaskVector = [i \in 1 .. n |-> Entry(1, i - 1)]
    /\ mainPc = "app"
    /\ joinIndex = 0
    /\ inits = 1

\* Doubles as fractions n/d; d = 0 stands for infinity (n > 0) and NaN (n = 0).
Frac(n, d) == [n |-> n, d |-> d]

IsNaN(a) == a.d = 0 /\ a.n = 0

IsInf(a) == a.d = 0 /\ a.n > 0

\* a < b on doubles: false when either side is NaN.
FracLess(a, b) ==
    IF IsNaN(a) \/ IsNaN(b) THEN FALSE
    ELSE IF IsInf(a) THEN FALSE
    ELSE IF IsInf(b) THEN TRUE
    ELSE a.n * b.d < b.n * a.d

\* a - h for a finite h.
FracMinus(a, h) ==
    IF a.d = 0 THEN a ELSE Frac(a.n * h.d - h.n * a.d, a.d * h.d)

\* A PerfStats structure.
PerfStats(t, idle, total, weighted, made, finished) ==
    [collectionTime |-> t, idleCycles |-> idle, totalCycles |-> total,
     weightedLoadedCycles |-> weighted, numThreadsCreated |-> made,
     numThreadsFinished |-> finished]

\* Values an element of the new double[maxNumCores] may hold before it is
\* first written.
Garbage == {Frac(0, 1), Frac(MaxStat + 1, 1)}

\* Lines 19-21: the estimator after construction for m cores, the array
\* holding u.
EstimatorConstructed(m, u) ==
    /\ previousStats = PerfStats(0, 0, 0, 0, 0, 0)
    /\ utilizationThresholds = u
    /\ estimatorMaxNumCores = m
    /\ thresholdWritten = [i \in 0 .. m - 1 |-> FALSE]
    /\ currentStats = PerfStats(0, 0, 0, 0, 0, 0)
    /\ curActiveCores = 0
    /\ lastCall = "none"
    /\ estimateResult = 0

InitEstimator == EstimatorConstructed(NumCores, [i \in 0 .. NumCores - 1 |-> Frac(0, 1)])

\* The earlier scheduler after threadInit and threadMainFunction on one
\* core: createNewRunnableThread has made the first context, which is about
\* to enter schedulerMainLoop.
InitOldScheduler ==
    /\ running = 1
    /\ possiblyRunnableThreads = <<1>>
    /\ sleepQueue = <<>>
    /\ taskBoxState = "EMPTY"
    /\ contextOccupied = [x \in 1 .. MaxContexts |-> FALSE]
    /\ wakeup = [x \in 1 .. MaxContexts |-> FALSE]
    /\ wakeUpTimeInCycles = [x \in 1 .. MaxContexts |-> 0]
    /\ numContexts = 1
    /\ resumeAt = [x \in 1 .. MaxContexts |-> "loop"]
    /\ calledFrom = [x \in 1 .. MaxContexts |-> "top"]
    /\ loopIndex = [x \in 1 .. MaxContexts |-> 1]
    /\ sleepCalled = [x \in 1 .. MaxContexts |-> FALSE]
    /\ filled = 0
    /\ signalsSent = 0
    /\ sleeps = 0
    /\ cycles = 0

\* A string constant as the sequence of its characters.
ProgramName == <<"a">>

\* Line 83.
DefaultStackSize == 1048576

\* parseOptions has run on the vector av, leaving n strings and the stack
\* size sz.
OptionsParsed(av, n, sz) ==
    /\ argv = av
    /\ argc = n
    /\ argvGiven = av
    /\ stackSize = sz
    /\ optPc = "parsed"

\* init was called with the program name alone.
InitOptions == OptionsParsed(<<ProgramName>>, 1, DefaultStackSize)

Init == InitSched /\ InitLock /\ InitLife(NumCores, NumCores) /\ InitEstimator /\ InitOptions /\ InitOldScheduler


(* --------------------- createThread (callers in Ext) ------------------- *)

\* Steps 1-2 of the allocation contract: load occupiedAndCount[coreId]; a full
\* core returns the null id.  The CAS loop re-enters here after a failed CAS.
CreateLoad(e, c) ==
    /\ \/ epc[e] = "idle"
       \/ epc[e] = "c_load" /\ c = eCore[e]
    /\ created' = IF epc[e] = "idle" /\ numOccupied[c] # maxThreadsPerCore
                    THEN created + 1 ELSE created
    /\ eCore' = [eCore EXCEPT ![e] = c]
    /\ IF numOccupied[c] = maxThreadsPerCore
         THEN /\ epc' = [epc EXCEPT ![e] = "c_null"]
              /\ UNCHANGED eMap
         ELSE /\ epc' = [epc EXCEPT ![e] = "c_cas"]
              /\ eMap' = [eMap EXCEPT ![e] = MaskAndCount(occupied[c], numOccupied[c])]
    /\ UNCHANGED <<sharedVars, coreVars, ctxVars, eIndex, eId, eOld, eStale, issued,
                   signalled>>
    /\ UNCHANGED libVars
    /\ UNCHANGED auxVars

\* The caller has the null id (NullThread) in hand.
CreateReturnNull(e) ==
    /\ epc[e] = "c_null"
    /\ epc' = [epc EXCEPT ![e] = "idle"]
    /\ eCore' = [eCore EXCEPT ![e] = 0]
    /\ UNCHANGED <<sharedVars, coreVars, ctxVars, eMap, eIndex, eId, eOld, eStale,
                   issued, created, signalled>>
    /\ UNCHANGED libVars
    /\ UNCHANGED auxVars

\* Steps 3-4: set the lowest zero bit and numOccupied + 1 with one CAS.
CreateCas(e) ==
    /\ epc[e] = "c_cas"
    /\ LET c == eCore[e]
           k == LowestZero(eMap[e].occupied)
       IN IF MaskAndCount(occupied[c], numOccupied[c]) = eMap[e]
            THEN /\ occupied' = [occupied EXCEPT ![c] = @ \cup {k}]
                 /\ numOccupied' = [numOccupied EXCEPT ![c] = (@ + 1) % CountModulus]
                 /\ eIndex' = [eIndex EXCEPT ![e] = k]
                 /\ epc' = [epc EXCEPT ![e] = "c_pub"]
            ELSE /\ epc' = [epc EXCEPT ![e] = "c_load"]
                 /\ UNCHANGED <<occupied, numOccupied, eIndex>>
    /\ eMap' = [eMap EXCEPT ![e] = NoMap]
    /\ UNCHANGED <<wakeupTimeInCycles, generation, publicPriorityMasks, joinLock,
                   blockedThreads, shutdown, clock, coreVars, ctxVars,
                   eCore, eId, eOld, eStale, issued, created, signalled>>
    /\ UNCHANGED libVars
    /\ UNCHANGED auxVars

\* Steps 5-6: the invocation is copied and wakeup 0 is published.
CreatePublish(e) ==
    /\ epc[e] = "c_pub"
    /\ wakeupTimeInCycles' = [wakeupTimeInCycles EXCEPT ![eCore[e]][eIndex[e]] = 0]
    /\ epc' = [epc EXCEPT ![e] = "c_ret"]
    /\ UNCHANGED <<occupied, numOccupied, generation, publicPriorityMasks, joinLock,
                   blockedThreads, shutdown, clock, coreVars, ctxVars,
                   eCore, eMap, eIndex, eId, eOld, eStale, issued, created, signalled>>
    /\ UNCHANGED libVars
    /\ UNCHANGED auxVars

\* Step 7: return ThreadId(ctx, ctx->generation).
CreateReturn(e) ==
    /\ epc[e] = "c_ret"
    /\ issued' = issued \cup
                   {ThreadId(eCore[e], eIndex[e], generation[eCore[e]][eIndex[e]])}
    /\ epc' = [epc EXCEPT ![e] = "idle"]
    /\ eCore' = [eCore EXCEPT ![e] = 0]
    /\ eIndex' = [eIndex EXCEPT ![e] = 0]
    /\ UNCHANGED <<sharedVars, coreVars, ctxVars, eMap, eId, eOld, eStale, created,
                   signalled>>
    /\ UNCHANGED libVars
    /\ UNCHANGED auxVars

(* ------------------------------ dispatch ------------------------------ *)

\* Control returns from dispatch() into context k of core c, which is (or
\* becomes) the loaded context: the statement after the call in its caller.
AfterDispatch(c, k) ==
    CASE caller[c][k] = "main" -> "user"
      [] caller[c][k] = "join" -> "j_relock"
      [] caller[c][k] = "lock" -> "l_check"
      [] OTHER -> "ret"

\* Faulty variant of the switch that writes BLOCKED to the context that is
\* switched away from, before the switch.
SwitchToBlocksCaller(c, k) ==
    /\ loadedContext' = [loadedContext EXCEPT ![c] = k]
    /\ IF caller[c][k] = "fresh"
         THEN /\ pc' = [pc EXCEPT ![c] = "dispatch"]
              /\ caller' = [caller EXCEPT ![c][k] = "main"]
              /\ UNCHANGED wakeupTimeInCycles
         ELSE /\ pc' = [pc EXCEPT ![c] = AfterDispatch(c, k)]
              /\ wakeupTimeInCycles' =
                    [wakeupTimeInCycles EXCEPT ![c][loadedContext[c]] = BLOCKED]
              /\ caller' = [caller EXCEPT ![c][k] =
                               IF caller[c][k] = "main" THEN "run" ELSE @]
    /\ owed' = [owed EXCEPT ![c] = [j \in Slots |-> owed[c][j] \ {k}]]
    /\ currentCycles' = [currentCycles EXCEPT ![c] = 0]
    /\ mask' = [mask EXCEPT ![c] = {}]
    /\ currentIndex' = [currentIndex EXCEPT ![c] = 0]

\* dispatch() has picked slot k (lines 382-390 and 428-438).  The loaded
\* context returns at once; a context suspended in dispatch() resumes after
\* its swapcontext, writes BLOCKED and returns; a context that never ran
\* starts schedulerMainLoop, whose first statement is dispatch().
SwitchTo(c, k) ==
    /\ loadedContext' = [loadedContext EXCEPT ![c] = k]
    /\ IF caller[c][k] = "fresh"
         THEN /\ pc' = [pc EXCEPT ![c] = "dispatch"]
              /\ caller' = [caller EXCEPT ![c][k] = "main"]
              /\ UNCHANGED wakeupTimeInCycles
         ELSE /\ pc' = [pc EXCEPT ![c] = AfterDispatch(c, k)]
              /\ wakeupTimeInCycles' = [wakeupTimeInCycles EXCEPT ![c][k] = BLOCKED]
              /\ caller' = [caller EXCEPT ![c][k] =
                               IF caller[c][k] = "main" THEN "run" ELSE @]
    /\ owed' = [owed EXCEPT ![c] = [j \in Slots |-> owed[c][j] \ {k}]]
    /\ currentCycles' = [currentCycles EXCEPT ![c] = 0]
    /\ mask' = [mask EXCEPT ![c] = {}]
    /\ currentIndex' = [currentIndex EXCEPT ![c] = 0]

\* Lines 358-359: sample the cycle counter and load the occupied mask.
DispatchEnter(c) ==
    /\ pc[c] = "dispatch"
    /\ currentCycles' = [currentCycles EXCEPT ![c] = clock]
    /\ mask' = [mask EXCEPT ![c] = occupied[c]]
    /\ currentIndex' = [currentIndex EXCEPT ![c] = nextCandidateIndex[c]]
    /\ pc' = [pc EXCEPT ![c] = IF privatePriorityMask[c] = {} THEN "d_pload" ELSE "d_prio"]
    /\ UNCHANGED <<sharedVars, loadedContext, privatePriorityMask, nextCandidateIndex,
                   slotMap, sigId, sigOld, ctxVars, extVars>>
    /\ UNCHANGED libVars
    /\ UNCHANGED auxVars

\* Lines 362-365: copy the public priority mask.
DispatchCopyPriority(c) ==
    /\ pc[c] = "d_pload"
    /\ privatePriorityMask' = [privatePriorityMask EXCEPT ![c] = publicPriorityMasks[c]]
    /\ pc' = [pc EXCEPT ![c] = IF publicPriorityMasks[c] = {} THEN "d_scan" ELSE "d_pclear"]
    /\ UNCHANGED <<sharedVars, loadedContext, nextCandidateIndex, dispVars,
                   slotMap, sigId, sigOld, ctxVars, extVars>>
    /\ UNCHANGED libVars
    /\ UNCHANGED auxVars

\* Faulty variant of line 366 that stores 0 in the public mask.
DispatchClearPublicAll(c) ==
    /\ pc[c] = "d_pclear"
    /\ publicPriorityMasks' = [publicPriorityMasks EXCEPT ![c] = {}]
    /\ pc' = [pc EXCEPT ![c] = "d_prio"]
    /\ UNCHANGED <<occupied, numOccupied, wakeupTimeInCycles, generation, joinLock,
                   blockedThreads, shutdown, clock, loadedContext, privatePriorityMask,
                   nextCandidateIndex, dispVars, slotMap, sigId, sigOld, ctxVars, extVars>>
    /\ UNCHANGED libVars
    /\ UNCHANGED auxVars

\* Line 366: clear the copied bits in the public mask.
DispatchClearPublic(c) ==
    /\ pc[c] = "d_pclear"
    /\ publicPriorityMasks' = [publicPriorityMasks EXCEPT ![c] = @ \ privatePriorityMask[c]]
    /\ pc' = [pc EXCEPT ![c] = "d_prio"]
    /\ UNCHANGED <<occupied, numOccupied, wakeupTimeInCycles, generation, joinLock,
                   blockedThreads, shutdown, clock, loadedContext, privatePriorityMask,
                   nextCandidateIndex, dispVars, slotMap, sigId, sigOld, ctxVars, extVars>>
    /\ UNCHANGED libVars
    /\ UNCHANGED auxVars

\* Faulty variant of the priority path that switches to the slot of the bit
\* without verifying its wakeup time and occupancy.
DispatchPriorityUnverified(c) ==
    /\ pc[c] = "d_prio"
    /\ LET firstSetBit == LowestSet(privatePriorityMask[c])
       IN /\ privatePriorityMask' = [privatePriorityMask EXCEPT ![c] = @ \ {firstSetBit}]
          /\ SwitchTo(c, firstSetBit)
          /\ UNCHANGED nextCandidateIndex
    /\ UNCHANGED <<occupied, numOccupied, generation, publicPriorityMasks, joinLock,
                   blockedThreads, shutdown, clock, slotMap, sigId, sigOld,
                   joinId, sleepUntil, extVars>>
    /\ UNCHANGED libVars
    /\ UNCHANGED auxVars

\* Lines 369-393: take the first set bit of the private mask; switch to its
\* slot if that is occupied (in the mask loaded) with wakeup exactly 0.
DispatchPriority(c) ==
    /\ pc[c] = "d_prio"
    /\ LET firstSetBit == LowestSet(privatePriorityMask[c])
       IN /\ privatePriorityMask' = [privatePriorityMask EXCEPT ![c] = @ \ {firstSetBit}]
          /\ IF wakeupTimeInCycles[c][firstSetBit] = 0 /\ firstSetBit \in mask[c]
               THEN /\ SwitchTo(c, firstSetBit)
                    /\ UNCHANGED nextCandidateIndex
               ELSE /\ pc' = [pc EXCEPT ![c] = "d_scan"]
                    /\ UNCHANGED <<wakeupTimeInCycles, loadedContext, nextCandidateIndex,
                                   dispVars, ctxVars>>
    /\ UNCHANGED <<occupied, numOccupied, generation, publicPriorityMasks, joinLock,
                   blockedThreads, shutdown, clock, slotMap, sigId, sigOld,
                   joinId, sleepUntil, extVars>>
    /\ UNCHANGED libVars
    /\ UNCHANGED auxVars

\* Faulty variant of the scan that takes the first occupied slot whatever
\* its wakeup time.
DispatchScanAnyWakeup(c) ==
    /\ pc[c] = "d_scan"
    /\ \E k \in mask[c] : k >= currentIndex[c]
    /\ LET k == LowestSet({j \in mask[c] : j >= currentIndex[c]})
       IN /\ nextCandidateIndex' = [nextCandidateIndex EXCEPT ![c] =
                  IF k + 1 = maxThreadsPerCore THEN 0 ELSE k + 1]
          /\ SwitchTo(c, k)
    /\ UNCHANGED <<occupied, numOccupied, generation, publicPriorityMasks, joinLock,
                   blockedThreads, shutdown, clock, privatePriorityMask,
                   slotMap, sigId, sigOld, joinId, sleepUntil, extVars>>
    /\ UNCHANGED libVars
    /\ UNCHANGED auxVars

\* Faulty variant of the scan that takes a slot one cycle before its wakeup
\* time (an off-by-one in the comparison of line 421).
DispatchScanEarly(c) ==
    /\ pc[c] = "d_scan"
    /\ \E k \in mask[c] : k >= currentIndex[c]
    /\ LET k == LowestSet({j \in mask[c] : j >= currentIndex[c]})
       IN IF currentCycles[c] + 1 >= wakeupTimeInCycles[c][k]
            THEN /\ nextCandidateIndex' = [nextCandidateIndex EXCEPT ![c] =
                        IF k + 1 = maxThreadsPerCore THEN 0 ELSE k + 1]
                 /\ SwitchTo(c, k)
            ELSE /\ currentIndex' = [currentIndex EXCEPT ![c] = k + 1]
                 /\ UNCHANGED <<wakeupTimeInCycles, pc, loadedContext, nextCandidateIndex,
                                currentCycles, mask, ctxVars>>
    /\ UNCHANGED <<occupied, numOccupied, generation, publicPriorityMasks, joinLock,
                   blockedThreads, shutdown, clock, privatePriorityMask,
                   slotMap, sigId, sigOld, joinId, sleepUntil, extVars>>
    /\ UNCHANGED libVars
    /\ UNCHANGED auxVars

\* Lines 394-440, one iteration of the scan that finds an occupied slot: the
\* slots whose bit is clear in the mask loaded are skipped without a memory
\* access; the wakeup time of the first occupied one is read and compared
\* with the cycles sampled.
DispatchScan(c) ==
    /\ pc[c] = "d_scan"
    /\ \E k \in mask[c] : k >= currentIndex[c]
    /\ LET k == LowestSet({j \in mask[c] : j >= currentIndex[c]})
       IN IF currentCycles[c] >= wakeupTimeInCycles[c][k]
            THEN /\ nextCandidateIndex' = [nextCandidateIndex EXCEPT ![c] =
                        IF k + 1 = maxThreadsPerCore THEN 0 ELSE k + 1]
                 /\ SwitchTo(c, k)
            ELSE /\ currentIndex' = [currentIndex EXCEPT ![c] = k + 1]
                 /\ UNCHANGED <<wakeupTimeInCycles, pc, loadedContext, nextCandidateIndex,
                                currentCycles, mask, ctxVars>>
    /\ UNCHANGED <<occupied, numOccupied, generation, publicPriorityMasks, joinLock,
                   blockedThreads, shutdown, clock, privatePriorityMask,
                   slotMap, sigId, sigOld, joinId, sleepUntil, extVars>>
    /\ UNCHANGED libVars
    /\ UNCHANGED auxVars

\* Faulty variant of the wrap with the test of line 411 left out.
DispatchWrapNoCheck(c) ==
    /\ pc[c] = "d_scan"
    /\ ~ \E k \in mask[c] : k >= currentIndex[c]
    /\ currentIndex' = [currentIndex EXCEPT ![c] = 0]
    /\ mask' = [mask EXCEPT ![c] = occupied[c]]
    /\ currentCycles' = [currentCycles EXCEPT ![c] = clock]
    /\ UNCHANGED <<sharedVars, pc, loadedContext, privatePriorityMask, nextCandidateIndex,
                   slotMap, sigId, sigOld, ctxVars, extVars>>
    /\ UNCHANGED libVars
    /\ UNCHANGED auxVars

\* Lines 403-415: the mask is exhausted; go back to slot 0, reload the mask,
\* resample the cycle counter and check for termination.
DispatchWrap(c) ==
    /\ pc[c] = "d_scan"
    /\ ~ \E k \in mask[c] : k >= currentIndex[c]
    /\ currentIndex' = [currentIndex EXCEPT ![c] = 0]
    /\ IF shutdown
         THEN /\ pc' = [pc EXCEPT ![c] = "exited"]
              /\ mask' = [mask EXCEPT ![c] = {}]
              /\ currentCycles' = [currentCycles EXCEPT ![c] = 0]
         ELSE /\ mask' = [mask EXCEPT ![c] = occupied[c]]
              /\ currentCycles' = [currentCycles EXCEPT ![c] = clock]
              /\ UNCHANGED pc
    /\ UNCHANGED <<sharedVars, loadedContext, privatePriorityMask, nextCandidateIndex,
                   slotMap, sigId, sigOld, ctxVars, extVars>>
    /\ UNCHANGED libVars
    /\ UNCHANGED auxVars

(* --------------------- schedulerMainLoop: the exit path ---------------- *)

\* runThread() returns (line 263): the callable of the loaded thread is done.
ThreadReturn(c) ==
    /\ pc[c] = "user"
    /\ pc' = [pc EXCEPT ![c] = "x_unocc"]
    /\ UNCHANGED <<sharedVars, loadedContext, privatePriorityMask, nextCandidateIndex,
                   dispVars, slotMap, sigId, sigOld, ctxVars, extVars>>
    /\ UNCHANGED libVars
    /\ UNCHANGED auxVars

\* Faulty variant of the exit path with the store of line 267 left out: a
\* wakeup that the thread was sent while it ran stays in the slot.
ExitUnoccupySkip(c) ==
    /\ pc[c] = "x_unocc"
    /\ pc' = [pc EXCEPT ![c] = "x_gen"]
    /\ UNCHANGED <<sharedVars, loadedContext, privatePriorityMask,
                   nextCandidateIndex, dispVars, slotMap, sigId, sigOld, ctxVars, extVars>>
    /\ UNCHANGED libVars
    /\ UNCHANGED auxVars

\* Line 267.
ExitUnoccupy(c) ==
    /\ pc[c] = "x_unocc"
    /\ wakeupTimeInCycles' = [wakeupTimeInCycles EXCEPT ![c][loadedContext[c]] = UNOCCUPIED]
    /\ pc' = [pc EXCEPT ![c] = "x_gen"]
    /\ UNCHANGED <<occupied, numOccupied, generation, publicPriorityMasks, joinLock,
                   blockedThreads, shutdown, clock, loadedContext, privatePriorityMask,
                   nextCandidateIndex, dispVars, slotMap, sigId, sigOld, ctxVars, extVars>>
    /\ UNCHANGED libVars
    /\ UNCHANGED auxVars

\* Line 270.
ExitBumpGeneration(c) ==
    /\ pc[c] = "x_gen"
    /\ generation' = [generation EXCEPT ![c][loadedContext[c]] = @ + 1]
    /\ pc' = [pc EXCEPT ![c] = "x_lock"]
    /\ UNCHANGED <<occupied, numOccupied, wakeupTimeInCycles, publicPriorityMasks, joinLock,
                   blockedThreads, shutdown, clock, loadedContext, privatePriorityMask,
                   nextCandidateIndex, dispVars, slotMap, sigId, sigOld, ctxVars, extVars>>
    /\ UNCHANGED libVars
    /\ UNCHANGED auxVars

\* Line 273: take joinLock (a spin lock: the step waits for it to be free).
ExitLock(c) ==
    /\ pc[c] = "x_lock"
    /\ ~ joinLock[c][loadedContext[c]]
    /\ joinLock' = [joinLock EXCEPT ![c][loadedContext[c]] = TRUE]
    /\ pc' = [pc EXCEPT ![c] = "x_notify"]
    /\ UNCHANGED <<occupied, numOccupied, wakeupTimeInCycles, generation,
                   publicPriorityMasks, blockedThreads, shutdown, clock, loadedContext,
                   privatePriorityMask, nextCandidateIndex, dispVars, slotMap, sigId,
                   sigOld, ctxVars, extVars>>
    /\ UNCHANGED libVars
    /\ UNCHANGED auxVars

\* Faulty variant of lines 274-275: joinLock is taken and released with no
\* notifyAll, so the waiters stay on blockedThreads.
ExitNotifySkip(c) ==
    /\ pc[c] = "x_notify"
    /\ joinLock' = [joinLock EXCEPT ![c][loadedContext[c]] = FALSE]
    /\ pc' = [pc EXCEPT ![c] = "x_load"]
    /\ UNCHANGED <<occupied, numOccupied, wakeupTimeInCycles, generation,
                   publicPriorityMasks, blockedThreads, shutdown, clock, loadedContext,
                   privatePriorityMask, nextCandidateIndex, dispVars, slotMap, sigId,
                   sigOld, ctxVars, extVars>>
    /\ UNCHANGED libVars
    /\ UNCHANGED auxVars

\* Faulty variant of notifyOne that wakes the waiter queued last.
ExitNotifyNewest(c) ==
    /\ pc[c] = "x_notify"
    /\ LET k == loadedContext[c]
           q == blockedThreads[c][k]
       IN IF q = <<>>
            THEN /\ joinLock' = [joinLock EXCEPT ![c][k] = FALSE]
                 /\ pc' = [pc EXCEPT ![c] = "x_load"]
                 /\ UNCHANGED <<blockedThreads, sigId>>
            ELSE /\ sigId' = [sigId EXCEPT ![c] = q[Len(q)]]
                 /\ blockedThreads' = [blockedThreads EXCEPT ![c][k] = SubSeq(q, 1, Len(q) - 1)]
                 /\ pc' = [pc EXCEPT ![c] = "x_sig"]
                 /\ UNCHANGED joinLock
    /\ UNCHANGED <<occupied, numOccupied, wakeupTimeInCycles, generation,
                   publicPriorityMasks, shutdown, clock, loadedContext,
                   privatePriorityMask, nextCandidateIndex, dispVars, slotMap,
                   sigOld, ctxVars, extVars>>
    /\ UNCHANGED libVars
    /\ UNCHANGED auxVars

\* Lines 274-275 with notifyAll/notifyOne (lines 833-849): pop the first
\* waiter and signal it; with no waiter left the guard releases joinLock.
ExitNotify(c) ==
    /\ pc[c] = "x_notify"
    /\ LET k == loadedContext[c]
       IN IF blockedThreads[c][k] = <<>>
            THEN /\ joinLock' = [joinLock EXCEPT ![c][k] = FALSE]
                 /\ pc' = [pc EXCEPT ![c] = "x_load"]
                 /\ UNCHANGED <<blockedThreads, sigId>>
            ELSE /\ sigId' = [sigId EXCEPT ![c] = Head(blockedThreads[c][k])]
                 /\ blockedThreads' = [blockedThreads EXCEPT ![c][k] = Tail(@)]
                 /\ pc' = [pc EXCEPT ![c] = "x_sig"]
                 /\ UNCHANGED joinLock
    /\ UNCHANGED <<occupied, numOccupied, wakeupTimeInCycles, generation,
                   publicPriorityMasks, shutdown, clock, loadedContext,
                   privatePriorityMask, nextCandidateIndex, dispVars, slotMap,
                   sigOld, ctxVars, extVars>>
    /\ UNCHANGED libVars
    /\ UNCHANGED auxVars

\* Lines 286-292: load the occupancy word.
ExitLoad(c) ==
    /\ pc[c] = "x_load"
    /\ slotMap' = [slotMap EXCEPT ![c] = MaskAndCount(occupied[c], numOccupied[c])]
    /\ pc' = [pc EXCEPT ![c] = "x_cas"]
    /\ UNCHANGED <<sharedVars, loadedContext, privatePriorityMask, nextCandidateIndex,
                   dispVars, sigId, sigOld, ctxVars, extVars>>
    /\ UNCHANGED libVars
    /\ UNCHANGED auxVars

\* Faulty variants of the clearing step of lines 284-296, against which the
\* occupancy properties are shown to discriminate.
\* (a) the count is decremented but the bit of the slot stays set.
ExitCasKeepsBit(c) ==
    /\ pc[c] = "x_cas"
    /\ IF MaskAndCount(occupied[c], numOccupied[c]) = slotMap[c]
         THEN /\ numOccupied' = [numOccupied EXCEPT ![c] =
                                    (slotMap[c].numOccupied + CountModulus - 1) % CountModulus]
              /\ pc' = [pc EXCEPT ![c] = "x_prio"]
              /\ UNCHANGED occupied
         ELSE /\ pc' = [pc EXCEPT ![c] = "x_load"]
              /\ UNCHANGED <<occupied, numOccupied>>
    /\ slotMap' = [slotMap EXCEPT ![c] = NoMap]
    /\ UNCHANGED <<wakeupTimeInCycles, generation, publicPriorityMasks, joinLock,
                   blockedThreads, shutdown, clock, loadedContext, privatePriorityMask,
                   nextCandidateIndex, dispVars, sigId, sigOld, ctxVars, extVars>>
    /\ UNCHANGED libVars
    /\ UNCHANGED auxVars

\* (b) the bit is cleared but the count is not decremented.
ExitCasNoDecrement(c) ==
    /\ pc[c] = "x_cas"
    /\ IF MaskAndCount(occupied[c], numOccupied[c]) = slotMap[c]
         THEN /\ occupied' = [occupied EXCEPT ![c] = slotMap[c].occupied \ {loadedContext[c]}]
              /\ pc' = [pc EXCEPT ![c] = "x_prio"]
              /\ UNCHANGED numOccupied
         ELSE /\ pc' = [pc EXCEPT ![c] = "x_load"]
              /\ UNCHANGED <<occupied, numOccupied>>
    /\ slotMap' = [slotMap EXCEPT ![c] = NoMap]
    /\ UNCHANGED <<wakeupTimeInCycles, generation, publicPriorityMasks, joinLock,
                   blockedThreads, shutdown, clock, loadedContext, privatePriorityMask,
                   nextCandidateIndex, dispVars, sigId, sigOld, ctxVars, extVars>>
    /\ UNCHANGED libVars
    /\ UNCHANGED auxVars

\* (c) a plain store of the word computed from the earlier load, in place of
\* the compare-and-swap.
ExitStoreBlind(c) ==
    /\ pc[c] = "x_cas"
    /\ occupied' = [occupied EXCEPT ![c] = slotMap[c].occupied \ {loadedContext[c]}]
    /\ numOccupied' = [numOccupied EXCEPT ![c] =
                          (slotMap[c].numOccupied + CountModulus - 1) % CountModulus]
    /\ pc' = [pc EXCEPT ![c] = "x_prio"]
    /\ slotMap' = [slotMap EXCEPT ![c] = NoMap]
    /\ UNCHANGED <<wakeupTimeInCycles, generation, publicPriorityMasks, joinLock,
                   blockedThreads, shutdown, clock, loadedContext, privatePriorityMask,
                   nextCandidateIndex, dispVars, sigId, sigOld, ctxVars, extVars>>
    /\ UNCHANGED libVars
    /\ UNCHANGED auxVars

\* Lines 289-296: numOccupied - 1 and the bit cleared, written by a CAS that
\* is retried from the load when the word has changed.
ExitCas(c) ==
    /\ pc[c] = "x_cas"
    /\ IF MaskAndCount(occupied[c], numOccupied[c]) = slotMap[c]
         THEN /\ occupied' = [occupied EXCEPT ![c] = slotMap[c].occupied \ {loadedContext[c]}]
              /\ numOccupied' = [numOccupied EXCEPT ![c] =
                                    (slotMap[c].numOccupied + CountModulus - 1) % CountModulus]
              /\ pc' = [pc EXCEPT ![c] = "x_prio"]
         ELSE /\ pc' = [pc EXCEPT ![c] = "x_load"]
              /\ UNCHANGED <<occupied, numOccupied>>
    /\ slotMap' = [slotMap EXCEPT ![c] = NoMap]
    /\ UNCHANGED <<wakeupTimeInCycles, generation, publicPriorityMasks, joinLock,
                   blockedThreads, shutdown, clock, loadedContext, privatePriorityMask,
                   nextCandidateIndex, dispVars, sigId, sigOld, ctxVars, extVars>>
    /\ UNCHANGED libVars
    /\ UNCHANGED auxVars

\* Lines 298-301, then the loop of line 258 calls dispatch() again.
ExitClearPriority(c) ==
    /\ pc[c] = "x_prio"
    /\ privatePriorityMask' = [privatePriorityMask EXCEPT ![c] = @ \ {loadedContext[c]}]
    /\ publicPriorityMasks' = [publicPriorityMasks EXCEPT ![c] = @ \ {loadedContext[c]}]
    /\ caller' = [caller EXCEPT ![c][loadedContext[c]] = "main"]
    /\ pc' = [pc EXCEPT ![c] = "dispatch"]
    /\ UNCHANGED <<occupied, numOccupied, wakeupTimeInCycles, generation, joinLock,
                   blockedThreads, shutdown, clock, loadedContext, nextCandidateIndex,
                   dispVars, slotMap, sigId, sigOld, joinId, sleepUntil, owed, extVars>>
    /\ UNCHANGED libVars
    /\ UNCHANGED auxVars

(* ----------------------------- getThreadId ---------------------------- *)

\* Lines 337-341, called by the thread that core c runs: the loaded context
\* with the generation it has now.
GetThreadId(c) == ThreadId(c, loadedContext[c], generation[c][loadedContext[c]])

(* ------------------------------- signal ------------------------------- *)

\* Faulty variants of signal, against which the wake-up properties are shown
\* to discriminate: the test of line 456 left out, and a plain store in
\* place of the cmpxchg of lines 459-462.
SignalSkipsNever(old) == FALSE

SignalStoreResult(id, old) ==
    [wakeupTimeInCycles EXCEPT ![id.core][id.slot] = 0]

\* A cmpxchg that never stores.
SignalCasFails(id, old) == wakeupTimeInCycles

\* Line 456: nothing is done for a slot whose wakeup time is UNOCCUPIED.
SignalSkips(old) == old = UNOCCUPIED

\* Lines 459-462: lock cmpxchg of 0 over the value read at line 455.
SignalCasResult(id, old) ==
    IF wakeupTimeInCycles[id.core][id.slot] = old
      THEN [wakeupTimeInCycles EXCEPT ![id.core][id.slot] = 0]
      ELSE wakeupTimeInCycles

\* Lines 465-467: raise the priority of the slot (coreId is valid for every
\* context that init builds).
SignalOrResult(id) == [publicPriorityMasks EXCEPT ![id.core] = @ \cup {id.slot}]

\* signal(id) called by notifyOne in the exit path: line 455.
ExitSignalRead(c) ==
    /\ pc[c] = "x_sig"
    /\ LET old == wakeupTimeInCycles[sigId[c].core][sigId[c].slot]
       IN IF SignalSkips(old)
            THEN /\ pc' = [pc EXCEPT ![c] = "x_notify"]
                 /\ sigId' = [sigId EXCEPT ![c] = NullThread]
                 /\ UNCHANGED sigOld
            ELSE /\ pc' = [pc EXCEPT ![c] = "x_sigcas"]
                 /\ sigOld' = [sigOld EXCEPT ![c] = old]
                 /\ UNCHANGED sigId
    /\ UNCHANGED <<sharedVars, loadedContext, privatePriorityMask, nextCandidateIndex,
                   dispVars, slotMap, ctxVars, extVars>>
    /\ UNCHANGED libVars
    /\ UNCHANGED auxVars

ExitSignalCas(c) ==
    /\ pc[c] = "x_sigcas"
    /\ wakeupTimeInCycles' = SignalCasResult(sigId[c], sigOld[c])
    /\ sigOld' = [sigOld EXCEPT ![c] = 0]
    /\ pc' = [pc EXCEPT ![c] = "x_sigor"]
    /\ UNCHANGED <<occupied, numOccupied, generation, publicPriorityMasks, joinLock,
                   blockedThreads, shutdown, clock, loadedContext, privatePriorityMask,
                   nextCandidateIndex, dispVars, slotMap, sigId, ctxVars, extVars>>
    /\ UNCHANGED libVars
    /\ UNCHANGED auxVars

ExitSignalOr(c) ==
    /\ pc[c] = "x_sigor"
    /\ publicPriorityMasks' = SignalOrResult(sigId[c])
    /\ sigId' = [sigId EXCEPT ![c] = NullThread]
    /\ pc' = [pc EXCEPT ![c] = "x_notify"]
    /\ UNCHANGED <<occupied, numOccupied, wakeupTimeInCycles, generation, joinLock,
                   blockedThreads, shutdown, clock, loadedContext, privatePriorityMask,
                   nextCandidateIndex, dispVars, slotMap, sigOld, ctxVars, extVars>>
    /\ UNCHANGED libVars
    /\ UNCHANGED auxVars

\* signal(id) called from another core or from a non-Arachne thread, with a
\* ThreadId that createThread has returned.
SignalRead(e, id) ==
    /\ epc[e] = "idle"
    /\ id \in issued
    /\ LET old == wakeupTimeInCycles[id.core][id.slot]
       IN IF SignalSkips(old)
            THEN UNCHANGED <<epc, eId, eOld, eStale>>
            ELSE /\ epc' = [epc EXCEPT ![e] = "s_cas"]
                 /\ eId' = [eId EXCEPT ![e] = id]
                 /\ eOld' = [eOld EXCEPT ![e] = old]
                 /\ eStale' = [eStale EXCEPT ![e] = id.gen < generation[id.core][id.slot]]
    /\ signalled' = signalled + 1
    /\ UNCHANGED <<sharedVars, coreVars, ctxVars, eCore, eMap, eIndex, issued, created>>
    /\ UNCHANGED libVars
    /\ UNCHANGED auxVars

SignalCas(e) ==
    /\ epc[e] = "s_cas"
    /\ wakeupTimeInCycles' = SignalCasResult(eId[e], eOld[e])
    /\ eOld' = [eOld EXCEPT ![e] = 0]
    /\ epc' = [epc EXCEPT ![e] = "s_or"]
    /\ UNCHANGED <<occupied, numOccupied, generation, publicPriorityMasks, joinLock,
                   blockedThreads, shutdown, clock, coreVars, ctxVars,
                   eCore, eMap, eIndex, eId, eStale, issued, created, signalled>>
    /\ UNCHANGED libVars
    /\ UNCHANGED auxVars

SignalOr(e) ==
    /\ epc[e] = "s_or"
    /\ publicPriorityMasks' = SignalOrResult(eId[e])
    /\ eId' = [eId EXCEPT ![e] = NullThread]
    /\ eStale' = [eStale EXCEPT ![e] = FALSE]
    /\ epc' = [epc EXCEPT ![e] = "idle"]
    /\ UNCHANGED <<occupied, numOccupied, wakeupTimeInCycles, generation, joinLock,
                   blockedThreads, shutdown, clock, coreVars, ctxVars,
                   eCore, eMap, eIndex, eOld, issued, created, signalled>>
    /\ UNCHANGED libVars
    /\ UNCHANGED auxVars

(* ------------------- yield, sleep, dispatch, join ---------------------- *)

\* The other threads of core c that are runnable now: occupied, and due.
Runnable(c) ==
    {j \in occupied[c] : j # loadedContext[c] /\ wakeupTimeInCycles[c][j] <= clock}

\* Faulty variant of yield with the store of line 315 left out: the thread
\* calls dispatch() without marking itself runnable.
YieldNoWake(c) ==
    /\ pc[c] = "user"
    /\ caller' = [caller EXCEPT ![c][loadedContext[c]] = "yield"]
    /\ owed' = [owed EXCEPT ![c][loadedContext[c]] = Runnable(c)]
    /\ pc' = [pc EXCEPT ![c] = IF numOccupied[c] = 1 THEN "ret" ELSE "dispatch"]
    /\ UNCHANGED <<sharedVars, loadedContext, privatePriorityMask,
                   nextCandidateIndex, dispVars, slotMap, sigId, sigOld,
                   joinId, sleepUntil, extVars>>
    /\ UNCHANGED libVars
    /\ UNCHANGED auxVars

\* Lines 310-317.  With one occupant yield returns at once; otherwise the
\* thread marks itself runnable and calls dispatch().
Yield(c) ==
    /\ pc[c] = "user"
    /\ caller' = [caller EXCEPT ![c][loadedContext[c]] = "yield"]
    /\ owed' = [owed EXCEPT ![c][loadedContext[c]] = Runnable(c)]
    /\ IF numOccupied[c] = 1
         THEN /\ pc' = [pc EXCEPT ![c] = "ret"]
              /\ UNCHANGED wakeupTimeInCycles
         ELSE /\ wakeupTimeInCycles' = [wakeupTimeInCycles EXCEPT ![c][loadedContext[c]] = 0]
              /\ pc' = [pc EXCEPT ![c] = "dispatch"]
    /\ UNCHANGED <<occupied, numOccupied, generation, publicPriorityMasks, joinLock,
                   blockedThreads, shutdown, clock, loadedContext, privatePriorityMask,
                   nextCandidateIndex, dispVars, slotMap, sigId, sigOld,
                   joinId, sleepUntil, extVars>>
    /\ UNCHANGED libVars
    /\ UNCHANGED auxVars

\* Lines 323-328, for a sleep of d cycles (Cycles::fromNanoseconds(ns) = d).
Sleep(c, d) ==
    /\ pc[c] = "user"
    /\ clock + d <= MaxClock
    /\ wakeupTimeInCycles' = [wakeupTimeInCycles EXCEPT ![c][loadedContext[c]] = clock + d]
    /\ sleepUntil' = [sleepUntil EXCEPT ![c][loadedContext[c]] = clock + d]
    /\ caller' = [caller EXCEPT ![c][loadedContext[c]] = "sleep"]
    /\ pc' = [pc EXCEPT ![c] = "dispatch"]
    /\ UNCHANGED <<occupied, numOccupied, generation, publicPriorityMasks, joinLock,
                   blockedThreads, shutdown, clock, loadedContext, privatePriorityMask,
                   nextCandidateIndex, dispVars, slotMap, sigId, sigOld,
                   joinId, owed, extVars>>
    /\ UNCHANGED libVars
    /\ UNCHANGED auxVars

\* A thread blocks by calling dispatch() itself (as SleepLock::lock and
\* ConditionVariable::wait do).
Block(c) ==
    /\ pc[c] = "user"
    /\ caller' = [caller EXCEPT ![c][loadedContext[c]] = "block"]
    /\ pc' = [pc EXCEPT ![c] = "dispatch"]
    /\ UNCHANGED <<sharedVars, loadedContext, privatePriorityMask, nextCandidateIndex,
                   dispVars, slotMap, sigId, sigOld, joinId, sleepUntil, owed, extVars>>
    /\ UNCHANGED libVars
    /\ UNCHANGED auxVars

\* Faulty variant of join with the generation test of line 481 left out:
\* every join waits.
JoinEnterNoCheck(c, id) ==
    /\ pc[c] = "user"
    /\ id \in issued
    /\ ~ joinLock[id.core][id.slot]
    /\ Len(blockedThreads[id.core][id.slot]) < MaxWaiters
    /\ caller' = [caller EXCEPT ![c][loadedContext[c]] = "join"]
    /\ joinId' = [joinId EXCEPT ![c][loadedContext[c]] = id]
    /\ joinLock' = [joinLock EXCEPT ![id.core][id.slot] = TRUE]
    /\ blockedThreads' = [blockedThreads EXCEPT ![id.core][id.slot] =
          Append(@, ThreadId(c, loadedContext[c], generation[c][loadedContext[c]]))]
    /\ pc' = [pc EXCEPT ![c] = "j_unlock"]
    /\ UNCHANGED <<occupied, numOccupied, wakeupTimeInCycles, generation,
                   publicPriorityMasks, shutdown, clock, loadedContext,
                   privatePriorityMask, nextCandidateIndex, dispVars, slotMap, sigId,
                   sigOld, sleepUntil, owed, extVars>>
    /\ UNCHANGED libVars
    /\ UNCHANGED auxVars

\* Lines 478-483 (and ConditionVariable::wait, "push self"): take joinLock and compare the generations; a stale id
\* returns (the guard releases the lock), otherwise ConditionVariable::wait
\* pushes getThreadId() on blockedThreads.
JoinEnter(c, id) ==
    /\ pc[c] = "user"
    /\ id \in issued
    /\ ~ joinLock[id.core][id.slot]
    /\ Len(blockedThreads[id.core][id.slot]) < MaxWaiters
    /\ caller' = [caller EXCEPT ![c][loadedContext[c]] = "join"]
    /\ joinId' = [joinId EXCEPT ![c][loadedContext[c]] = id]
    /\ IF id.gen # generation[id.core][id.slot]
         THEN /\ pc' = [pc EXCEPT ![c] = "ret"]
              /\ UNCHANGED <<joinLock, blockedThreads>>
         ELSE /\ joinLock' = [joinLock EXCEPT ![id.core][id.slot] = TRUE]
              /\ blockedThreads' = [blockedThreads EXCEPT ![id.core][id.slot] =
                    Append(@, ThreadId(c, loadedContext[c], generation[c][loadedContext[c]]))]
              /\ pc' = [pc EXCEPT ![c] = "j_unlock"]
    /\ UNCHANGED <<occupied, numOccupied, wakeupTimeInCycles, generation,
                   publicPriorityMasks, shutdown, clock, loadedContext,
                   privatePriorityMask, nextCandidateIndex, dispVars, slotMap, sigId,
                   sigOld, sleepUntil, owed, extVars>>
    /\ UNCHANGED libVars
    /\ UNCHANGED auxVars

\* ConditionVariable::wait: release the lock, then dispatch().
JoinWait(c) ==
    /\ pc[c] = "j_unlock"
    /\ LET id == joinId[c][loadedContext[c]]
       IN joinLock' = [joinLock EXCEPT ![id.core][id.slot] = FALSE]
    /\ pc' = [pc EXCEPT ![c] = "dispatch"]
    /\ UNCHANGED <<occupied, numOccupied, wakeupTimeInCycles, generation,
                   publicPriorityMasks, blockedThreads, shutdown, clock, loadedContext,
                   privatePriorityMask, nextCandidateIndex, dispVars, slotMap, sigId,
                   sigOld, ctxVars, extVars>>
    /\ UNCHANGED libVars
    /\ UNCHANGED auxVars

\* dispatch() has returned in wait(): the lock is taken again, and released
\* by join's guard as join returns (line 484).
JoinRelock(c) ==
    /\ pc[c] = "j_relock"
    /\ LET id == joinId[c][loadedContext[c]]
       IN ~ joinLock[id.core][id.slot]
    /\ pc' = [pc EXCEPT ![c] = "ret"]
    /\ UNCHANGED <<sharedVars, loadedContext, privatePriorityMask, nextCandidateIndex,
                   dispVars, slotMap, sigId, sigOld, ctxVars, extVars>>
    /\ UNCHANGED libVars
    /\ UNCHANGED auxVars

\* yield, sleep, dispatch or join returns to the thread's code.
Return(c) ==
    /\ pc[c] = "ret"
    /\ pc' = [pc EXCEPT ![c] = "user"]
    /\ caller' = [caller EXCEPT ![c][loadedContext[c]] = "run"]
    /\ joinId' = [joinId EXCEPT ![c][loadedContext[c]] = NullThread]
    /\ sleepUntil' = [sleepUntil EXCEPT ![c][loadedContext[c]] = 0]
    /\ owed' = [owed EXCEPT ![c][loadedContext[c]] = {}]
    /\ UNCHANGED <<sharedVars, loadedContext, privatePriorityMask, nextCandidateIndex,
                   dispVars, slotMap, sigId, sigOld, extVars>>
    /\ UNCHANGED libVars
    /\ UNCHANGED auxVars

(* ------------------------------ SleepLock ------------------------------ *)

\* The context loaded on core c, as a ThreadContext pointer.
Self(c) == <<c, loadedContext[c]>>

\* ThreadId::context of an id.
ContextOf(id) == <<id.core, id.slot>>

\* Lines 780-786.  The guard section reads and writes only what the guard
\* protects, so it is one step.  A free lock is taken and lock() returns;
\* otherwise the caller queues its id, drops the guard and is about to call
\* dispatch().  Callers do not hold the lock already.
LockEnter(c) ==
    /\ pc[c] = "user"
    /\ ~blockedThreadsLock
    /\ ~holding[c][loadedContext[c]]
    /\ caller' = [caller EXCEPT ![c][loadedContext[c]] = "lock"]
    /\ IF owner = NoContext
         THEN /\ owner' = Self(c)
              /\ holding' = [holding EXCEPT ![c][loadedContext[c]] = TRUE]
              /\ pc' = [pc EXCEPT ![c] = "ret"]
              /\ UNCHANGED lockQueue
         ELSE /\ lockQueue' = Append(lockQueue,
                     ThreadId(c, loadedContext[c], generation[c][loadedContext[c]]))
              /\ pc' = [pc EXCEPT ![c] = "dispatch"]
              /\ UNCHANGED <<owner, holding>>
    /\ UNCHANGED <<sharedVars, loadedContext, privatePriorityMask, nextCandidateIndex,
                   dispVars, slotMap, sigId, sigOld, joinId, sleepUntil, owed, extVars>>
    /\ UNCHANGED <<blockedThreadsLock, lifeVars>>
    /\ UNCHANGED auxVars

\* Faulty variant of the loop test: lock() returns after the first dispatch()
\* whoever owns the lock.
LockCheckNoRecheck(c) ==
    /\ pc[c] = "l_check"
    /\ pc' = [pc EXCEPT ![c] = "ret"]
    /\ holding' = [holding EXCEPT ![c][loadedContext[c]] = TRUE]
    /\ UNCHANGED <<sharedVars, loadedContext, privatePriorityMask, nextCandidateIndex,
                   dispVars, slotMap, sigId, sigOld, ctxVars, extVars>>
    /\ UNCHANGED <<owner, lockQueue, blockedThreadsLock, lifeVars>>
    /\ UNCHANGED auxVars

\* Line 791: after dispatch() returns, lock() returns only to the owner and
\* calls dispatch() again otherwise.
LockCheck(c) ==
    /\ pc[c] = "l_check"
    /\ IF owner = Self(c)
         THEN /\ pc' = [pc EXCEPT ![c] = "ret"]
              /\ holding' = [holding EXCEPT ![c][loadedContext[c]] = TRUE]
         ELSE /\ pc' = [pc EXCEPT ![c] = "dispatch"]
              /\ UNCHANGED holding
    /\ UNCHANGED <<sharedVars, loadedContext, privatePriorityMask, nextCandidateIndex,
                   dispVars, slotMap, sigId, sigOld, ctxVars, extVars>>
    /\ UNCHANGED <<owner, lockQueue, blockedThreadsLock, lifeVars>>
    /\ UNCHANGED auxVars

\* Lines 800-807: one attempt, under the guard.
TryLock(c) ==
    /\ pc[c] = "user"
    /\ ~blockedThreadsLock
    /\ ~holding[c][loadedContext[c]]
    /\ caller' = [caller EXCEPT ![c][loadedContext[c]] = "try_lock"]
    /\ pc' = [pc EXCEPT ![c] = "ret"]
    /\ IF owner = NoContext
         THEN /\ owner' = Self(c)
              /\ holding' = [holding EXCEPT ![c][loadedContext[c]] = TRUE]
         ELSE UNCHANGED <<owner, holding>>
    /\ UNCHANGED <<sharedVars, loadedContext, privatePriorityMask, nextCandidateIndex,
                   dispVars, slotMap, sigId, sigOld, joinId, sleepUntil, owed, extVars>>
    /\ UNCHANGED <<lockQueue, blockedThreadsLock, lifeVars>>
    /\ UNCHANGED auxVars

\* Faulty variant of unlock that clears owner before waking the head waiter.
UnlockEnterClears(c) ==
    /\ pc[c] = "user"
    /\ ~blockedThreadsLock
    /\ holding[c][loadedContext[c]]
    /\ holding' = [holding EXCEPT ![c][loadedContext[c]] = FALSE]
    /\ caller' = [caller EXCEPT ![c][loadedContext[c]] = "unlock"]
    /\ owner' = NoContext
    /\ IF lockQueue = <<>>
         THEN /\ pc' = [pc EXCEPT ![c] = "ret"]
              /\ UNCHANGED <<blockedThreadsLock, sigId>>
         ELSE /\ blockedThreadsLock' = TRUE
              /\ sigId' = [sigId EXCEPT ![c] = Head(lockQueue)]
              /\ pc' = [pc EXCEPT ![c] = "u_sig"]
    /\ UNCHANGED <<sharedVars, loadedContext, privatePriorityMask, nextCandidateIndex,
                   dispVars, slotMap, sigOld, joinId, sleepUntil, owed, extVars>>
    /\ UNCHANGED <<lockQueue, lifeVars>>
    /\ UNCHANGED auxVars

\* Lines 812-817, by a thread that holds the lock.  With nobody queued owner
\* becomes NULL and unlock returns; otherwise owner becomes the context of
\* the front id and signal(front) is called with the guard held.
UnlockEnter(c) ==
    /\ pc[c] = "user"
    /\ ~blockedThreadsLock
    /\ holding[c][loadedContext[c]]
    /\ holding' = [holding EXCEPT ![c][loadedContext[c]] = FALSE]
    /\ caller' = [caller EXCEPT ![c][loadedContext[c]] = "unlock"]
    /\ IF lockQueue = <<>>
         THEN /\ owner' = NoContext
              /\ pc' = [pc EXCEPT ![c] = "ret"]
              /\ UNCHANGED <<blockedThreadsLock, sigId>>
         ELSE /\ owner' = ContextOf(Head(lockQueue))
              /\ blockedThreadsLock' = TRUE
              /\ sigId' = [sigId EXCEPT ![c] = Head(lockQueue)]
              /\ pc' = [pc EXCEPT ![c] = "u_sig"]
    /\ UNCHANGED <<sharedVars, loadedContext, privatePriorityMask, nextCandidateIndex,
                   dispVars, slotMap, sigOld, joinId, sleepUntil, owed, extVars>>
    /\ UNCHANGED <<lockQueue, lifeVars>>
    /\ UNCHANGED auxVars

\* Faulty variant of the signal of line 818 that never wakes anybody.
UnlockSignalReadSkips(c) ==
    /\ pc[c] = "u_sig"
    /\ pc' = [pc EXCEPT ![c] = "u_pop"]
    /\ UNCHANGED <<sharedVars, loadedContext, privatePriorityMask, nextCandidateIndex,
                   dispVars, slotMap, sigId, sigOld, ctxVars, extVars>>
    /\ UNCHANGED libVars
    /\ UNCHANGED auxVars

\* signal(front) of line 818: line 455.
UnlockSignalRead(c) ==
    /\ pc[c] = "u_sig"
    /\ LET old == wakeupTimeInCycles[sigId[c].core][sigId[c].slot]
       IN IF SignalSkips(old)
            THEN /\ pc' = [pc EXCEPT ![c] = "u_pop"]
                 /\ UNCHANGED sigOld
            ELSE /\ pc' = [pc EXCEPT ![c] = "u_sigcas"]
                 /\ sigOld' = [sigOld EXCEPT ![c] = old]
    /\ UNCHANGED <<sharedVars, loadedContext, privatePriorityMask, nextCandidateIndex,
                   dispVars, slotMap, sigId, ctxVars, extVars>>
    /\ UNCHANGED libVars
    /\ UNCHANGED auxVars

UnlockSignalCas(c) ==
    /\ pc[c] = "u_sigcas"
    /\ wakeupTimeInCycles' = SignalCasResult(sigId[c], sigOld[c])
    /\ sigOld' = [sigOld EXCEPT ![c] = 0]
    /\ pc' = [pc EXCEPT ![c] = "u_sigor"]
    /\ UNCHANGED <<occupied, numOccupied, generation, publicPriorityMasks, joinLock,
                   blockedThreads, shutdown, clock, loadedContext, privatePriorityMask,
                   nextCandidateIndex, dispVars, slotMap, sigId, ctxVars, extVars>>
    /\ UNCHANGED libVars
    /\ UNCHANGED auxVars

UnlockSignalOr(c) ==
    /\ pc[c] = "u_sigor"
    /\ publicPriorityMasks' = SignalOrResult(sigId[c])
    /\ pc' = [pc EXCEPT ![c] = "u_pop"]
    /\ UNCHANGED <<occupied, numOccupied, wakeupTimeInCycles, generation, joinLock,
                   blockedThreads, shutdown, clock, loadedContext, privatePriorityMask,
                   nextCandidateIndex, dispVars, slotMap, sigId, sigOld, ctxVars, extVars>>
    /\ UNCHANGED libVars
    /\ UNCHANGED auxVars

\* Lines 819-820: pop the front id and release the guard.
UnlockPop(c) ==
    /\ pc[c] = "u_pop"
    /\ lockQueue' = Tail(lockQueue)
    /\ blockedThreadsLock' = FALSE
    /\ sigId' = [sigId EXCEPT ![c] = NullThread]
    /\ pc' = [pc EXCEPT ![c] = "ret"]
    /\ UNCHANGED <<sharedVars, loadedContext, privatePriorityMask, nextCandidateIndex,
                   dispVars, slotMap, sigOld, ctxVars, extVars>>
    /\ UNCHANGED <<owner, holding, lifeVars>>
    /\ UNCHANGED auxVars

\* lock() past its guard section.
Lock(c) == LockEnter(c) \/ LockCheck(c)

\* unlock() as a whole.
Unlock(c) ==
    \/ UnlockEnter(c)
    \/ UnlockSignalRead(c)
    \/ UnlockSignalCas(c)
    \/ UnlockSignalOr(c)
    \/ UnlockPop(c)

(* ------------------------- shutDown and the clock ---------------------- *)

\* Lines 770-774.
ShutDown(e) ==
    /\ epc[e] = "idle"
    /\ ~ shutdown
    /\ shutdown' = TRUE
    /\ UNCHANGED <<occupied, numOccupied, wakeupTimeInCycles, generation,
                   publicPriorityMasks, joinLock, blockedThreads, clock,
                   coreVars, ctxVars, extVars>>
    /\ UNCHANGED libVars
    /\ UNCHANGED auxVars

\* The cycle counter advances.  Only a pending wakeup time makes its value
\* observable, so it advances only while some thread sleeps.
Tick ==
    /\ clock < MaxClock
    /\ \E c \in Cores, k \in Slots :
          /\ wakeupTimeInCycles[c][k] < BLOCKED
          /\ wakeupTimeInCycles[c][k] > clock
    /\ clock' = clock + 1
    /\ UNCHANGED <<occupied, numOccupied, wakeupTimeInCycles, generation,
                   publicPriorityMasks, joinLock, blockedThreads, shutdown,
                   coreVars, ctxVars, extVars>>
    /\ UNCHANGED libVars
    /\ UNCHANGED auxVars

(* ------------------ kernel threads, growth and teardown ---------------- *)

\* Everything but the arrays of the library and its kernel threads.
runtimeVars == <<sharedVars, coreVars, ctxVars, extVars, lockVars>>

\* The state of kernel thread t with its position changed to st.
At(t, st) == [kernelThreads EXCEPT ![t].st = st]

\* Lines 417-424: dispatch on kernel thread t finds a runnable thread after n
\* iterations of its scan, and calls incrementCoreCount when n is below the
\* threshold and numCoresPrecursor is below maxNumCores.
DispatchFinds(t, n) ==
    /\ kernelThreads[t].st = "run"
    /\ kernelThreads' = [kernelThreads EXCEPT
           ![t].iter = n,
           ![t].st = IF n < CORE_INCREASE_THRESHOLD /\ numCoresPrecursor < maxNumCores
                       THEN "inc" ELSE "run"]
    /\ UNCHANGED <<initialized, numCores, numCoresPrecursor, maxNumCores,
                   coreChangeMutex, kernelThreadStacks, allThreadContexts,
                   occupiedAndCount, priorityMaskVector, mainPc, joinIndex, inits>>
    /\ UNCHANGED runtimeVars
    /\ UNCHANGED auxVars

\* Line 915: take coreChangeMutex.
IncrementLock(t) ==
    /\ kernelThreads[t].st = "inc"
    /\ coreChangeMutex = 0
    /\ coreChangeMutex' = t
    /\ kernelThreads' = At(t, "inc_cs")
    /\ UNCHANGED <<initialized, numCores, numCoresPrecursor, maxNumCores,
                   kernelThreadStacks, allThreadContexts, occupiedAndCount,
                   priorityMaskVector, mainPc, joinIndex, inits>>
    /\ UNCHANGED runtimeVars
    /\ UNCHANGED auxVars

\* Faulty variant of incrementCoreCount that does not test the limit again
\* under the mutex.
IncrementSpawnUnchecked(t) ==
    /\ kernelThreads[t].st = "inc_cs"
    /\ kernelThreads' =
          Append(At(t, "run"), [id |-> -1, st |-> "jp_alloc", iter |-> 0])
    /\ numCoresPrecursor' = numCoresPrecursor + 1
    /\ coreChangeMutex' = 0
    /\ UNCHANGED <<initialized, numCores, maxNumCores, kernelThreadStacks,
                   allThreadContexts, occupiedAndCount, priorityMaskVector, mainPc,
                   joinIndex, inits>>
    /\ UNCHANGED runtimeVars
    /\ UNCHANGED auxVars

\* Lines 916-923: start a kernel thread in joinKernelThreadPool and count it,
\* unless the limit has been reached meanwhile; release the mutex.
IncrementSpawn(t) ==
    /\ kernelThreads[t].st = "inc_cs"
    /\ IF numCoresPrecursor < maxNumCores
         THEN /\ kernelThreads' =
                    Append(At(t, "run"), [id |-> -1, st |-> "jp_alloc", iter |-> 0])
              /\ numCoresPrecursor' = numCoresPrecursor + 1
         ELSE /\ kernelThreads' = At(t, "run")
              /\ UNCHANGED numCoresPrecursor
    /\ coreChangeMutex' = 0
    /\ UNCHANGED <<initialized, numCores, maxNumCores, kernelThreadStacks,
                   allThreadContexts, occupiedAndCount, priorityMaskVector, mainPc,
                   joinIndex, inits>>
    /\ UNCHANGED runtimeVars
    /\ UNCHANGED auxVars

\* Lines 863-883: the new kernel thread allocates its occupancy word and its
\* contexts, with coreId ~0.
JoinPoolAlloc(t) ==
    /\ kernelThreads[t].st = "jp_alloc"
    /\ kernelThreads' = At(t, "jp_lock")
    /\ UNCHANGED <<initialized, numCores, numCoresPrecursor, maxNumCores,
                   coreChangeMutex, kernelThreadStacks, allThreadContexts,
                   occupiedAndCount, priorityMaskVector, mainPc, joinIndex, inits>>
    /\ UNCHANGED runtimeVars
    /\ UNCHANGED auxVars

\* Line 887.
JoinPoolLock(t) ==
    /\ kernelThreads[t].st = "jp_lock"
    /\ coreChangeMutex = 0
    /\ coreChangeMutex' = t
    /\ kernelThreads' = At(t, "jp_cs")
    /\ UNCHANGED <<initialized, numCores, numCoresPrecursor, maxNumCores,
                   kernelThreadStacks, allThreadContexts, occupiedAndCount,
                   priorityMaskVector, mainPc, joinIndex, inits>>
    /\ UNCHANGED runtimeVars
    /\ UNCHANGED auxVars

\* Faulty variant of the registration that leaves numCores as it is.
JoinPoolRegisterUncounted(t) ==
    /\ kernelThreads[t].st = "jp_cs"
    /\ occupiedAndCount' = Append(occupiedAndCount, Entry(inits, numCores))
    /\ allThreadContexts' = Append(allThreadContexts, Entry(inits, numCores))
    /\ priorityMaskVector' = Append(priorityMaskVector, Entry(inits, numCores))
    /\ kernelThreadStacks' = Append(kernelThreadStacks, Entry(inits, numCores))
    /\ kernelThreads' = [kernelThreads EXCEPT ![t].id = numCores, ![t].st = "run"]
    /\ coreChangeMutex' = 0
    /\ UNCHANGED <<initialized, numCores, numCoresPrecursor, maxNumCores, mainPc,
                   joinIndex, inits>>
    /\ UNCHANGED runtimeVars
    /\ UNCHANGED auxVars

\* Lines 888-907: push the per-core elements, take numCores as kernelThreadId
\* and increment it, release the mutex, and enter the scheduler.
JoinPoolRegister(t) ==
    /\ kernelThreads[t].st = "jp_cs"
    /\ occupiedAndCount' = Append(occupiedAndCount, Entry(inits, numCores))
    /\ allThreadContexts' = Append(allThreadContexts, Entry(inits, numCores))
    /\ priorityMaskVector' = Append(priorityMaskVector, Entry(inits, numCores))
    /\ kernelThreadStacks' = Append(kernelThreadStacks, Entry(inits, numCores))
    /\ kernelThreads' = [kernelThreads EXCEPT ![t].id = numCores, ![t].st = "run"]
    /\ numCores' = numCores + 1
    /\ coreChangeMutex' = 0
    /\ UNCHANGED <<initialized, numCoresPrecursor, maxNumCores, mainPc, joinIndex,
                   inits>>
    /\ UNCHANGED runtimeVars
    /\ UNCHANGED auxVars

\* dispatch with a small numIterations: the workload saturates the core.
QuickFind(t) ==
    /\ t \in DOMAIN kernelThreads
    /\ \E n \in 0 .. CORE_INCREASE_THRESHOLD - 1 : DispatchFinds(t, n)

\* incrementCoreCount and joinKernelThreadPool on kernel thread t.
KernelProgress(t) ==
    /\ t \in DOMAIN kernelThreads
    /\ \/ IncrementLock(t)
       \/ IncrementSpawn(t)
       \/ JoinPoolAlloc(t)
       \/ JoinPoolLock(t)
       \/ JoinPoolRegister(t)

\* A step of the kernel thread at position t of kernelThreads.
KernelStep(t) ==
    /\ t \in DOMAIN kernelThreads
    /\ \/ \E n \in 0 .. CORE_INCREASE_THRESHOLD : DispatchFinds(t, n)
       \/ KernelProgress(t)

\* Lines 411-415 and 205-206: with shutdown set the scheduler of kernel
\* thread t switches back to its kernel stack and threadMain returns.
ThreadMainReturns(t) ==
    /\ t \in DOMAIN kernelThreads
    /\ kernelThreads[t].st = "run"
    /\ shutdown
    /\ kernelThreads' = At(t, "done")
    /\ UNCHANGED <<initialized, numCores, numCoresPrecursor, maxNumCores,
                   coreChangeMutex, kernelThreadStacks, allThreadContexts,
                   occupiedAndCount, priorityMaskVector, mainPc, joinIndex, inits>>
    /\ UNCHANGED runtimeVars
    /\ UNCHANGED auxVars

\* Line 494: the main thread calls waitForTermination.
WaitForTerminationCall ==
    /\ mainPc = "app"
    /\ mainPc' = "w_join"
    /\ joinIndex' = 0
    /\ UNCHANGED <<initialized, numCores, numCoresPrecursor, maxNumCores,
                   coreChangeMutex, kernelThreads, kernelThreadStacks,
                   allThreadContexts, occupiedAndCount, priorityMaskVector, inits>>
    /\ UNCHANGED runtimeVars
    /\ UNCHANGED auxVars

\* Lines 495-497: kernelThreads[i].join() returns once that thread is done.
WaitJoin ==
    /\ mainPc = "w_join"
    /\ joinIndex < Len(kernelThreads)
    /\ kernelThreads[joinIndex + 1].st = "done"
    /\ joinIndex' = joinIndex + 1
    /\ UNCHANGED <<initialized, numCores, numCoresPrecursor, maxNumCores,
                   coreChangeMutex, kernelThreads, kernelThreadStacks,
                   allThreadContexts, occupiedAndCount, priorityMaskVector, mainPc,
                   inits>>
    /\ UNCHANGED runtimeVars
    /\ UNCHANGED auxVars

\* Lines 498-517, after the join loop: clear kernelThreads and
\* kernelThreadStacks, free the contexts and the occupancy word of every
\* core below numCores, clear allThreadContexts and occupiedAndCount, and
\* reset initialized.  Nothing else is written.
WaitTearDown ==
    /\ mainPc = "w_join"
    /\ joinIndex >= Len(kernelThreads)
    /\ kernelThreads' = <<>>
    /\ kernelThreadStacks' = <<>>
    /\ allThreadContexts' = <<>>
    /\ occupiedAndCount' = <<>>
    /\ initialized' = FALSE
    /\ mainPc' = "done"
    /\ UNCHANGED <<numCores, numCoresPrecursor, maxNumCores, coreChangeMutex,
                   priorityMaskVector, joinIndex, inits>>
    /\ UNCHANGED runtimeVars
    /\ UNCHANGED auxVars

\* std::thread::hardware_concurrency().
HardwareConcurrency == NumCores

\* vector::resize(n) of v, new elements being made by init() number i.
Resize(v, n, i) == [j \in 1 .. n |-> IF j <= Len(v) THEN v[j] ELSE Entry(i, j - 1)]

\* The elements init() number i pushes for cores 0 .. n - 1.
Pushed(n, i) == [j \in 1 .. n |-> Entry(i, j - 1)]

\* Lines 663-709, called after waitForTermination has returned, with the
\* options numCores = n and maxNumCores = m on the command line (0: the
\* option is not given, parseOptions leaves the variable alone).
LibInit(n, m) ==
    /\ mainPc = "done"
    /\ ~initialized
    /\ inits < MaxInits
    /\ initialized' = TRUE
    /\ inits' = inits + 1
    /\ LET given == IF n # 0 THEN n ELSE numCores
           cores == IF given = 0 THEN HardwareConcurrency ELSE given
           limit == IF m # 0 THEN m ELSE maxNumCores
       IN /\ numCores' = cores
          /\ numCoresPrecursor' = cores
          /\ maxNumCores' = IF cores > limit THEN cores ELSE limit
          /\ occupiedAndCount' = occupiedAndCount \o Pushed(cores, inits + 1)
          /\ priorityMaskVector' = priorityMaskVector \o Pushed(cores, inits + 1)
          /\ allThreadContexts' = allThreadContexts \o Pushed(cores, inits + 1)
          /\ kernelThreadStacks' = Resize(kernelThreadStacks, cores, inits + 1)
          /\ kernelThreads' = kernelThreads \o
                 [j \in 1 .. cores |-> [id |-> j - 1, st |-> "run", iter |-> 0]]
    /\ shutdown' = FALSE
    /\ mainPc' = "app"
    /\ UNCHANGED <<coreChangeMutex, joinIndex>>
    /\ UNCHANGED <<occupied, numOccupied, wakeupTimeInCycles, generation,
                   publicPriorityMasks, joinLock, blockedThreads, clock,
                   coreVars, ctxVars, extVars, lockVars>>
    /\ UNCHANGED auxVars

(* --------------------------- CoreLoadEstimator ------------------------- *)

\* Everything but the estimator.
nonEstVars == <<sharedVars, coreVars, ctxVars, extVars, libVars, optVars, oldVars>>

\* The thresholds of CoreLoadEstimator.h.
loadFactorThreshold == Frac(1, 1)

idleCoreFractionHysteresis == Frac(1, 5)

slotOccupancyThreshold == Frac(1, 2)

\* Cycles::fromNanoseconds.
FromNanoseconds(ns) == ns * CyclesPerNanosecond

\* What PerfStats::collectStats may deliver for the first sample: a non-zero
\* collection time and counters that have run for a while.
FirstStats ==
    {PerfStats(1, c, c, c, c, c) : c \in 0 .. 1}

\* What collectStats may deliver after the sample p: time has passed, the
\* counters have not gone back, the cores were idle or busy throughout, and
\* finished threads were created.
LaterStats(p) ==
    {PerfStats(p.collectionTime + dt, p.idleCycles + idle * total, p.totalCycles + total,
               p.weightedLoadedCycles + weighted * MaxStat, p.numThreadsCreated + live,
               p.numThreadsFinished) :
        dt \in 1 .. MaxStat, idle \in 0 .. 1, total \in 0 .. MaxStat,
        weighted \in 0 .. 1, live \in 0 .. 1}

\* Lines 41-47.
TotalUtilizedCores(cur, prev) ==
    LET idleCycles == cur.idleCycles - prev.idleCycles
        totalCycles == cur.totalCycles - prev.totalCycles
        utilizedCycles == totalCycles - idleCycles
        totalMeasurementCycles ==
            FromNanoseconds(cur.collectionTime - prev.collectionTime)
    IN Frac(utilizedCycles, totalMeasurementCycles)

\* Lines 51-54.
AverageLoadFactor(cur, prev) ==
    Frac(cur.weightedLoadedCycles - prev.weightedLoadedCycles,
         cur.totalCycles - prev.totalCycles)

\* Lines 64-67.
AverageNumSlotsUsed(cur, n) ==
    Frac(cur.numThreadsCreated - cur.numThreadsFinished, n * maxThreadsPerCore)

\* Faulty variant of the grow test without the limit on the core count.
GrowsAtLimit(cur, prev, n) ==
    FracLess(loadFactorThreshold, AverageLoadFactor(cur, prev))

\* Lines 55-56.
Grows(cur, prev, n) ==
    /\ n < estimatorMaxNumCores
    /\ FracLess(loadFactorThreshold, AverageLoadFactor(cur, prev))

\* Lines 71-73.
Shrinks(cur, prev, n) ==
    /\ FracLess(TotalUtilizedCores(cur, prev),
                FracMinus(utilizationThresholds[n - 1], idleCoreFractionHysteresis))
    /\ FracLess(AverageNumSlotsUsed(cur, n), slotOccupancyThreshold)

\* Faulty variant of estimate whose first call returns 0 without storing the
\* sample.
EstimateNoBaseline(n, st) ==
    /\ lastCall' = "estimate"
    /\ curActiveCores' = n
    /\ st \in FirstStats
    /\ previousStats.collectionTime = 0
    /\ estimateResult' = 0
    /\ UNCHANGED <<previousStats, currentStats, utilizationThresholds, thresholdWritten>>
    /\ UNCHANGED estimatorMaxNumCores
    /\ UNCHANGED nonEstVars

\* Lines 28-77: estimate(n) with st delivered by collectStats.  The first
\* call stores the sample and returns 0; later calls compare a new sample
\* with the stored one, which they leave in place.
Estimate(n, st) ==
    /\ lastCall' = "estimate"
    /\ curActiveCores' = n
    /\ IF previousStats.collectionTime = 0
         THEN /\ st \in FirstStats
              /\ previousStats' = st
              /\ estimateResult' = 0
              /\ UNCHANGED <<currentStats, utilizationThresholds, thresholdWritten>>
         ELSE /\ st \in LaterStats(previousStats)
              /\ currentStats' = st
              /\ UNCHANGED previousStats
              /\ IF Grows(st, previousStats, n)
                   THEN /\ utilizationThresholds' =
                               [utilizationThresholds EXCEPT
                                   ![n] = TotalUtilizedCores(st, previousStats)]
                        /\ thresholdWritten' = [thresholdWritten EXCEPT ![n] = TRUE]
                        /\ estimateResult' = 1
                   ELSE /\ estimateResult' =
                               IF Shrinks(st, previousStats, n) THEN -1 ELSE 0
                        /\ UNCHANGED <<utilizationThresholds, thresholdWritten>>
    /\ UNCHANGED estimatorMaxNumCores
    /\ UNCHANGED nonEstVars

\* Lines 83-84: the body of reset() is empty.
Reset ==
    /\ lastCall' = "reset"
    /\ UNCHANGED <<previousStats, utilizationThresholds, estimatorMaxNumCores,
                   thresholdWritten, currentStats, curActiveCores, estimateResult>>
    /\ UNCHANGED nonEstVars

(* ---------------------------- parseOptions ----------------------------- *)

\* Lines 538-542: the option names as character sequences.
numCoresName == <<"n", "u", "m", "C", "o", "r", "e", "s">>

maxNumCoresName == <<"m", "a", "x", "N", "u", "m", "C", "o", "r", "e", "s">>

stackSizeName == <<"s", "t", "a", "c", "k", "S", "i", "z", "e">>

optionSpecifiers ==
    << [optionName |-> numCoresName, id |-> "c", takesArgument |-> TRUE],
       [optionName |-> maxNumCoresName, id |-> "m", takesArgument |-> TRUE],
       [optionName |-> stackSizeName, id |-> "s", takesArgument |-> TRUE] >>

\* Line 543.
UNRECOGNIZED == "unrecognized"

\* str[k] of a C string: the terminating NUL follows the last character.
CharAt(str, k) == IF k < Len(str) THEN str[k + 1] ELSE "NUL"

\* strncmp(a, b, n) == 0: the first n characters agree, up to a NUL.
StrncmpEqual(a, b, n) ==
    \A k \in 0 .. n - 1 :
        (\A j \in 0 .. k - 1 : CharAt(a, j) # "NUL") => CharAt(a, k) = CharAt(b, k)

Digits == <<"0", "1", "2", "3", "4", "5", "6", "7", "8", "9">>

DigitValue(ch) == (CHOOSE d \in 1 .. Len(Digits) : Digits[d] = ch) - 1

\* The digits of str from position k on, after the value acc.
RECURSIVE AtoiFrom(_, _, _)
AtoiFrom(str, k, acc) ==
    IF k < Len(str) /\ \E d \in 1 .. Len(Digits) : Digits[d] = str[k + 1]
      THEN AtoiFrom(str, k + 1, acc * 10 + DigitValue(str[k + 1]))
      ELSE acc

\* atoi on a string without leading white space: an optional sign, then the
\* leading digits; 0 when there are none.
Atoi(str) ==
    IF CharAt(str, 0) = "-" THEN 0 - AtoiFrom(str, 1, 0)
    ELSE IF CharAt(str, 0) = "+" THEN AtoiFrom(str, 1, 0)
    ELSE AtoiFrom(str, 0, 0)

\* Lines 555-579: the id of the first specifier whose name is a prefix of
\* optionName when argument i has a successor; UNRECOGNIZED when no name
\* is one or when the first such option lacks its argument.
OptionId(optionName, i, n) ==
    LET hits == {k \in 1 .. Len(optionSpecifiers) :
                    StrncmpEqual(optionSpecifiers[k].optionName, optionName,
                                 Len(optionSpecifiers[k].optionName))}
        first == CHOOSE k \in hits : \A j \in hits : k <= j
    IN IF hits = {} THEN UNRECOGNIZED
       ELSE IF optionSpecifiers[first].takesArgument /\ i + 1 >= n THEN UNRECOGNIZED
       ELSE optionSpecifiers[first].id

\* memmove(av + i, av + i + by, count * sizeof(char*)).
Memmove(av, i, by, count) ==
    [j \in 1 .. Len(av) |-> IF j - 1 >= i /\ j - 1 < i + count THEN av[j + by] ELSE av[j]]

\* Lines 546-593: the loop from index i on; st holds argc, argv and the
\* three globals.
RECURSIVE ParseFrom(_, _)
ParseFrom(i, st) ==
    IF i >= st.argc THEN st
    ELSE IF CharAt(st.argv[i + 1], 0) # "-" \/ CharAt(st.argv[i + 1], 1) # "-"
      THEN ParseFrom(i + 1, st)
    ELSE LET optionName == SubSeq(st.argv[i + 1], 3, Len(st.argv[i + 1]))
             optionId == OptionId(optionName, i, st.argc)
             optionArgument == st.argv[i + 2]
             moved == [st EXCEPT !.argc = st.argc - 2,
                                 !.argv = Memmove(st.argv, i, 2, st.argc - 2 - i)]
         IN CASE optionId = "c" ->
                   ParseFrom(i, [moved EXCEPT !.numCores = Atoi(optionArgument)])
              [] optionId = "m" ->
                   ParseFrom(i, [moved EXCEPT !.maxNumCores = Atoi(optionArgument)])
              [] optionId = "s" ->
                   ParseFrom(i, [moved EXCEPT !.stackSize = Atoi(optionArgument)])
              [] OTHER -> ParseFrom(i + 1, st)

\* Lines 525-595: parseOptions(argcp, argv) with argcp not NULL, as init
\* calls it after setting initialized.
ParseOptions ==
    /\ optPc = "start"
    /\ LET out == ParseFrom(1, [argc |-> argc, argv |-> argv, numCores |-> numCores,
                                maxNumCores |-> maxNumCores, stackSize |-> stackSize])
       IN /\ argc' = out.argc
          /\ argv' = out.argv
          /\ numCores' = out.numCores
          /\ maxNumCores' = out.maxNumCores
          /\ stackSize' = out.stackSize
    /\ optPc' = "parsed"
    /\ UNCHANGED <<argvGiven, initialized, numCoresPrecursor, coreChangeMutex,
                   kernelThreads, kernelThreadStacks, allThreadContexts,
                   occupiedAndCount, priorityMaskVector, mainPc, joinIndex, inits>>
    /\ UNCHANGED <<sharedVars, coreVars, ctxVars, extVars, lockVars, estVars, oldVars>>

(* ------------- the earlier scheduler (src/unnamed/part_000) ------------ *)

\* One core of the earlier scheduler.  What runs on the core is sequential;
\* signal and the filling of the task box come from other cores and take
\* effect between the steps below, each of which reads the task box or the
\* wakeup flags once.

nonOldVars == <<sharedVars, coreVars, ctxVars, extVars, libVars, estVars, optVars>>

\* Lines 311-321: checkSleepQueue on the queue q and the wakeup flags w at
\* the cycle count now.
RECURSIVE CheckSleepQueue(_, _, _)
CheckSleepQueue(q, w, now) ==
    IF Len(q) > 0 /\ wakeUpTimeInCycles[q[1]] < now
      THEN CheckSleepQueue(Tail(q), [w EXCEPT ![q[1]] = TRUE], now)
      ELSE [queue |-> q, wakeup |-> w]

\* Lines 330-345: the queue q after the insertion of x, wt holding the wake
\* times.
InsertSleeper(q, x, wt) ==
    LET later == {j \in 1 .. Len(q) : wt[q[j]] > wt[x]}
        j == CHOOSE k \in later : \A l \in later : k <= l
    IN IF later = {} THEN Append(q, x)
       ELSE SubSeq(q, 1, j - 1) \o <<x>> \o SubSeq(q, j, Len(q))

\* The first index from start on of a context whose wakeup flag is set in w
\* and that is not in skip; 0 when there is none.
FirstWakeup(start, w, skip) ==
    LET hits == {i \in start .. Len(possiblyRunnableThreads) :
                    w[possiblyRunnableThreads[i]] /\ possiblyRunnableThreads[i] \notin skip}
    IN IF hits = {} THEN 0 ELSE CHOOSE i \in hits : \A j \in hits : i <= j

\* Lines 130-161: createNewRunnableThread over the vector prt; the caller
\* continues at cont when it is switched to again.
CreateNewRunnableThread(prt, cont) ==
    LET free == {i \in 1 .. Len(prt) : ~contextOccupied[prt[i]]}
        first == CHOOSE i \in free : \A j \in free : i <= j
    IN IF free # {}
         THEN /\ running' = prt[first]
              /\ wakeup' = [wakeup EXCEPT ![prt[first]] = FALSE]
              /\ possiblyRunnableThreads' = prt
              /\ resumeAt' = [resumeAt EXCEPT ![running] = cont]
              /\ UNCHANGED <<numContexts, contextOccupied, calledFrom>>
         ELSE /\ numContexts < MaxContexts
              /\ running' = numContexts + 1
              /\ numContexts' = numContexts + 1
              /\ possiblyRunnableThreads' = Append(prt, numContexts + 1)
              /\ contextOccupied' = [contextOccupied EXCEPT ![numContexts + 1] = FALSE]
              /\ wakeup' = [wakeup EXCEPT ![numContexts + 1] = FALSE]
              /\ resumeAt' = [resumeAt EXCEPT ![running] = cont,
                                              ![numContexts + 1] = "loop"]
              /\ calledFrom' = [calledFrom EXCEPT ![numContexts + 1] = "top"]

\* Lines 236-250: the poll of the task box at the head of the loop of
\* schedulerMainLoop.
MainLoopPoll ==
    /\ resumeAt[running] = "loop"
    /\ IF taskBoxState = "FILLED"
         THEN IF ~contextOccupied[running]
                THEN /\ taskBoxState' = "EMPTY"
                     /\ contextOccupied' = [contextOccupied EXCEPT ![running] = TRUE]
                     /\ resumeAt' = [resumeAt EXCEPT ![running] = "user"]
                     /\ UNCHANGED <<running, possiblyRunnableThreads, wakeup,
                                    numContexts, calledFrom>>
                ELSE /\ CreateNewRunnableThread(possiblyRunnableThreads, "scan")
                     /\ UNCHANGED taskBoxState
         ELSE /\ resumeAt' = [resumeAt EXCEPT ![running] = "scan"]
              /\ UNCHANGED <<running, possiblyRunnableThreads, wakeup, numContexts,
                             contextOccupied, calledFrom, taskBoxState>>
    /\ UNCHANGED <<sleepQueue, wakeUpTimeInCycles, loopIndex, sleepCalled, filled,
                   signalsSent, sleeps, cycles>>
    /\ UNCHANGED nonOldVars

\* Lines 252-276: checkSleepQueue and the scan of schedulerMainLoop, which a
\* context continues at index loopIndex when it is switched to again.  A
\* context that finds its own flag returns from schedulerMainLoop to sleep
\* or block, which return; the first frame of a context has nowhere to
\* return to.
MainLoopScan ==
    /\ resumeAt[running] \in {"scan", "scan_resume"}
    /\ LET chk == IF resumeAt[running] = "scan"
                    THEN CheckSleepQueue(sleepQueue, wakeup, cycles)
                    ELSE [queue |-> sleepQueue, wakeup |-> wakeup]
           i == FirstWakeup(IF resumeAt[running] = "scan" THEN 1 ELSE loopIndex[running],
                            chk.wakeup, {})
       IN /\ sleepQueue' = chk.queue
          /\ IF i = 0
               THEN /\ wakeup' = chk.wakeup
                    /\ resumeAt' = [resumeAt EXCEPT ![running] = "loop"]
                    /\ UNCHANGED <<running, loopIndex, calledFrom, sleepCalled>>
               ELSE IF possiblyRunnableThreads[i] = running
                 THEN /\ wakeup' = [chk.wakeup EXCEPT ![running] = FALSE]
                      /\ resumeAt' = [resumeAt EXCEPT ![running] =
                                         IF calledFrom[running] = "top" THEN "fault"
                                         ELSE "user"]
                      /\ calledFrom' = [calledFrom EXCEPT ![running] = "top"]
                      /\ sleepCalled' = [sleepCalled EXCEPT ![running] = FALSE]
                      /\ UNCHANGED <<running, loopIndex>>
                 ELSE /\ wakeup' = chk.wakeup
                      /\ running' = possiblyRunnableThreads[i]
                      /\ resumeAt' = [resumeAt EXCEPT ![running] = "scan_resume"]
                      /\ loopIndex' = [loopIndex EXCEPT ![running] = i + 1]
                      /\ UNCHANGED <<calledFrom, sleepCalled>>
    /\ UNCHANGED <<possiblyRunnableThreads, taskBoxState, contextOccupied,
                   wakeUpTimeInCycles, numContexts, filled, signalsSent, sleeps, cycles>>
    /\ UNCHANGED nonOldVars

\* Line 246: runThread returns.
TaskReturns ==
    /\ resumeAt[running] = "user"
    /\ contextOccupied' = [contextOccupied EXCEPT ![running] = FALSE]
    /\ resumeAt' = [resumeAt EXCEPT ![running] = "scan"]
    /\ UNCHANGED <<running, possiblyRunnableThreads, sleepQueue, taskBoxState, wakeup,
                   wakeUpTimeInCycles, numContexts, calledFrom, loopIndex, sleepCalled,
                   filled, signalsSent, sleeps, cycles>>
    /\ UNCHANGED nonOldVars

\* Lines 288-295: yield polls the task box.
OldYield ==
    /\ resumeAt[running] = "user"
    /\ IF taskBoxState = "FILLED"
         THEN CreateNewRunnableThread(Append(possiblyRunnableThreads, running),
                                      "yield_scan")
         ELSE /\ resumeAt' = [resumeAt EXCEPT ![running] = "yield_scan"]
              /\ UNCHANGED <<running, possiblyRunnableThreads, wakeup, numContexts,
                             contextOccupied, calledFrom>>
    /\ UNCHANGED <<sleepQueue, taskBoxState, wakeUpTimeInCycles, loopIndex, sleepCalled,
                   filled, signalsSent, sleeps, cycles>>
    /\ UNCHANGED nonOldVars

\* Lines 296-309: yield switches to the first other context that is to wake
\* up, or returns.
YieldScan ==
    /\ resumeAt[running] = "yield_scan"
    /\ LET chk == CheckSleepQueue(sleepQueue, wakeup, cycles)
           i == FirstWakeup(1, chk.wakeup, {running})
       IN /\ sleepQueue' = chk.queue
          /\ IF i = 0
               THEN /\ wakeup' = chk.wakeup
                    /\ UNCHANGED running
               ELSE /\ wakeup' = [chk.wakeup EXCEPT
                                     ![running] = TRUE,
                                     ![possiblyRunnableThreads[i]] = FALSE]
                    /\ running' = possiblyRunnableThreads[i]
    /\ resumeAt' = [resumeAt EXCEPT ![running] = "user"]
    /\ UNCHANGED <<possiblyRunnableThreads, taskBoxState, contextOccupied,
                   wakeUpTimeInCycles, numContexts, calledFrom, loopIndex, sleepCalled,
                   filled, signalsSent, sleeps, cycles>>
    /\ UNCHANGED nonOldVars

\* Lines 327-350: sleep(ns) sets the wake time, enters the sleep queue and
\* polls the task box.
OldSleep(ns) ==
    /\ resumeAt[running] = "user"
    /\ sleeps < MaxOldSleeps
    /\ sleeps' = sleeps + 1
    /\ wakeUpTimeInCycles' =
          [wakeUpTimeInCycles EXCEPT ![running] = cycles + FromNanoseconds(ns)]
    /\ sleepQueue' = InsertSleeper(sleepQueue, running, wakeUpTimeInCycles')
    /\ sleepCalled' = [sleepCalled EXCEPT ![running] = TRUE]
    /\ IF taskBoxState = "FILLED"
         THEN CreateNewRunnableThread(possiblyRunnableThreads, "sleep_scan")
         ELSE /\ resumeAt' = [resumeAt EXCEPT ![running] = "sleep_scan"]
              /\ UNCHANGED <<running, possiblyRunnableThreads, wakeup, numContexts,
                             contextOccupied, calledFrom>>
    /\ UNCHANGED <<taskBoxState, loopIndex, filled, signalsSent, cycles>>
    /\ UNCHANGED nonOldVars

\* Lines 353-369: sleep switches to the first context that is to wake up,
\* itself included, or runs schedulerMainLoop.
SleepScan ==
    /\ resumeAt[running] = "sleep_scan"
    /\ LET chk == CheckSleepQueue(sleepQueue, wakeup, cycles)
           i == FirstWakeup(1, chk.wakeup, {})
       IN /\ sleepQueue' = chk.queue
          /\ IF i = 0
               THEN /\ wakeup' = chk.wakeup
                    /\ resumeAt' = [resumeAt EXCEPT ![running] = "loop"]
                    /\ calledFrom' = [calledFrom EXCEPT ![running] = "sleep"]
                    /\ UNCHANGED running
               ELSE /\ wakeup' = [chk.wakeup EXCEPT ![possiblyRunnableThreads[i]] = FALSE]
                    /\ running' = possiblyRunnableThreads[i]
                    /\ resumeAt' = [resumeAt EXCEPT ![running] = "sleep_ret"]
                    /\ UNCHANGED calledFrom
    /\ UNCHANGED <<possiblyRunnableThreads, taskBoxState, contextOccupied,
                   wakeUpTimeInCycles, numContexts, loopIndex, sleepCalled, filled,
                   signalsSent, sleeps, cycles>>
    /\ UNCHANGED nonOldVars

\* Line 363: the context that sleep switched away from runs again, and
\* sleep returns.
SleepReturn ==
    /\ resumeAt[running] = "sleep_ret"
    /\ resumeAt' = [resumeAt EXCEPT ![running] = "user"]
    /\ sleepCalled' = [sleepCalled EXCEPT ![running] = FALSE]
    /\ UNCHANGED <<running, possiblyRunnableThreads, sleepQueue, taskBoxState,
                   contextOccupied, wakeup, wakeUpTimeInCycles, numContexts, calledFrom,
                   loopIndex, filled, signalsSent, sleeps, cycles>>
    /\ UNCHANGED nonOldVars

\* Lines 383-391: block polls the task box, and returns when it runs again
\* after having made room for the task.
OldBlock ==
    /\ resumeAt[running] = "user"
    /\ IF taskBoxState = "FILLED"
         THEN CreateNewRunnableThread(Append(possiblyRunnableThreads, running), "user")
         ELSE /\ resumeAt' = [resumeAt EXCEPT ![running] = "block_scan"]
              /\ UNCHANGED <<running, possiblyRunnableThreads, wakeup, numContexts,
                             contextOccupied, calledFrom>>
    /\ UNCHANGED <<sleepQueue, taskBoxState, wakeUpTimeInCycles, loopIndex, sleepCalled,
                   filled, signalsSent, sleeps, cycles>>
    /\ UNCHANGED nonOldVars

\* Lines 393-406: block switches to the first context that is to wake up, or
\* runs schedulerMainLoop.
BlockScan ==
    /\ resumeAt[running] = "block_scan"
    /\ LET i == FirstWakeup(1, wakeup, {})
       IN IF i = 0
            THEN /\ resumeAt' = [resumeAt EXCEPT ![running] = "loop"]
                 /\ calledFrom' = [calledFrom EXCEPT ![running] = "block"]
                 /\ UNCHANGED <<running, wakeup>>
            ELSE /\ wakeup' = [wakeup EXCEPT ![possiblyRunnableThreads[i]] = FALSE]
                 /\ running' = possiblyRunnableThreads[i]
                 /\ resumeAt' = [resumeAt EXCEPT ![running] = "user"]
                 /\ UNCHANGED calledFrom
    /\ UNCHANGED <<possiblyRunnableThreads, sleepQueue, taskBoxState, contextOccupied,
                   wakeUpTimeInCycles, numContexts, loopIndex, sleepCalled, filled,
                   signalsSent, sleeps, cycles>>
    /\ UNCHANGED nonOldVars

\* Lines 410-412: signal(id) for the context x of a thread that has not
\* returned.
SignalContext(x) ==
    /\ x \in 1 .. numContexts
    /\ contextOccupied[x]
    /\ signalsSent < MaxOldSignals
    /\ signalsSent' = signalsSent + 1
    /\ wakeup' = [wakeup EXCEPT ![x] = TRUE]
    /\ UNCHANGED <<running, possiblyRunnableThreads, sleepQueue, taskBoxState,
                   contextOccupied, wakeUpTimeInCycles, numContexts, resumeAt,
                   calledFrom, loopIndex, sleepCalled, filled, sleeps, cycles>>
    /\ UNCHANGED nonOldVars

\* Another core puts a task into the task box of this core.
FillTaskBox ==
    /\ taskBoxState = "EMPTY"
    /\ filled < MaxFills
    /\ filled' = filled + 1
    /\ taskBoxState' = "FILLED"
    /\ UNCHANGED <<running, possiblyRunnableThreads, sleepQueue, contextOccupied, wakeup,
                   wakeUpTimeInCycles, numContexts, resumeAt, calledFrom, loopIndex,
                   sleepCalled, signalsSent, sleeps, cycles>>
    /\ UNCHANGED nonOldVars

\* The cycle counter advances.
CyclesTick ==
    /\ cycles < MaxCycles
    /\ cycles' = cycles + 1
    /\ UNCHANGED <<running, possiblyRunnableThreads, sleepQueue, taskBoxState,
                   contextOccupied, wakeup, wakeUpTimeInCycles, numContexts, resumeAt,
                   calledFrom, loopIndex, sleepCalled, filled, signalsSent, sleeps>>
    /\ UNCHANGED nonOldVars

(* ---------------------------- specification ---------------------------- *)

\* dispatch() without the priority path, which only a signal makes reachable.
Scheduler(c) ==
    \/ DispatchEnter(c)
    \/ DispatchCopyPriority(c)
    \/ DispatchScan(c)
    \/ DispatchWrap(c)

PriorityPath(c) ==
    \/ DispatchClearPublic(c)
    \/ DispatchPriority(c)

\* The exit path of schedulerMainLoop with no joiner to notify.
ExitPath(c) ==
    \/ ThreadReturn(c)
    \/ ExitUnoccupy(c)
    \/ ExitBumpGeneration(c)
    \/ ExitLock(c)
    \/ ExitNotify(c)
    \/ ExitLoad(c)
    \/ ExitCas(c)
    \/ ExitClearPriority(c)

ExitSignal(c) ==
    \/ ExitSignalRead(c)
    \/ ExitSignalCas(c)
    \/ ExitSignalOr(c)

Join(c) ==
    \/ \E id \in issued : JoinEnter(c, id)
    \/ JoinWait(c)
    \/ JoinRelock(c)

\* createThread against a core of targets, at most limit calls in a behaviour.
CreateThread(e, targets, limit) ==
    \/ \E c \in targets :
          /\ (epc[e] = "idle" /\ numOccupied[c] # maxThreadsPerCore) => created < limit
          /\ CreateLoad(e, c)
    \/ CreateReturnNull(e)
    \/ CreateCas(e)
    \/ CreatePublish(e)
    \/ CreateReturn(e)

\* signal from outside the cores, at most limit calls in a behaviour.
Signal(e, limit) ==
    \/ \E id \in issued : signalled < limit /\ SignalRead(e, id)
    \/ SignalCas(e)
    \/ SignalOr(e)

\* The whole runtime: every core, every caller, every operation.
Next ==
    \/ \E c \in Cores :
          \/ Scheduler(c)
          \/ PriorityPath(c)
          \/ ExitPath(c)
          \/ ExitSignal(c)
          \/ Yield(c)
          \/ \E d \in 1 .. MaxSleep : Sleep(c, d)
          \/ Block(c)
          \/ Join(c)
          \/ Return(c)
    \/ \E e \in Ext :
          \/ CreateThread(e, Cores, MaxCreates)
          \/ Signal(e, MaxSignals)
          \/ ShutDown(e)
    \/ Tick

Spec == Init /\ [][Next]_vars

\* Creations from several callers against one core whose threads return at
\* once: the occupancy word under contention.
NextOcc ==
    \/ Scheduler(0)
    \/ ExitPath(0)
    \/ \E e \in Ext : CreateThread(e, {0}, MaxCreates)

SpecOcc == Init /\ [][NextOcc]_vars

\* One core whose threads yield, sleep, block and return, with one caller
\* outside that creates and signals threads.
NextSig ==
    \/ Scheduler(0)
    \/ PriorityPath(0)
    \/ ExitPath(0)
    \/ Yield(0)
    \/ \E d \in 1 .. MaxSleep : Sleep(0, d)
    \/ Block(0)
    \/ Return(0)
    \/ CreateThread(1, {0}, SigCreates)
    \/ Signal(1, MaxSignals)
    \/ Tick

SpecSig == Init /\ [][NextSig]_vars

\* Two cores whose threads join one another and return, with one caller
\* outside that creates threads on either core and signals them.
CoreStepJoin(c) ==
    \/ Scheduler(c)
    \/ PriorityPath(c)
    \/ ExitPath(c)
    \/ ExitSignal(c)
    \/ Join(c)
    \/ Return(c)

NextJoin ==
    \/ \E c \in Cores : CoreStepJoin(c)
    \/ CreateThread(1, Cores, JoinCreates)
    \/ Signal(1, JoinSignals)

SpecJoin == Init /\ [][NextJoin]_vars

\* The kernel thread of a core keeps running (threadMain runs until shutDown,
\* and each step of a core but the wait for a spin lock is non-blocking),
\* and the callable of every thread returns: a thread that gets to its own
\* code again and again does not call join for ever.
FairJoin ==
    \A c \in Cores : WF_vars(CoreStepJoin(c)) /\ SF_vars(ThreadReturn(c))

\* join and the exit path on their own: the cores and createThread, with no
\* signal from outside the cores.
NextJoinLive ==
    \/ \E c \in Cores : CoreStepJoin(c)
    \/ CreateThread(1, Cores, JoinCreates)

SpecJoinFair == Init /\ [][NextJoinLive]_vars /\ FairJoin

\* join of another thread that has not exited: the caller waits on joinCV.
JoinLive(c) ==
    \/ \E id \in issued :
          /\ id.gen = generation[id.core][id.slot]
          /\ ContextOf(id) # Self(c)
          /\ JoinEnter(c, id)
    \/ JoinWait(c)
    \/ JoinRelock(c)

\* Cores whose threads wait on joinCV of one another and return.
CoreStepCv(c) ==
    \/ Scheduler(c)
    \/ PriorityPath(c)
    \/ ExitPath(c)
    \/ ExitSignal(c)
    \/ JoinLive(c)
    \/ Return(c)

\* Three threads and no signals from outside, so that two threads can wait
\* on joinCV of a third: one creator puts threads on core 0, and another may
\* put the first thread on core 1.
NextCv ==
    \/ \E c \in Cores : CoreStepCv(c)
    \/ CreateThread(1, {0}, CvCreates)
    \/ CreateThread(2, {1}, 1)

SpecCv == Init /\ [][NextCv]_vars

\* As FairJoin: kernel threads keep running and callables return.
FairCv ==
    \A c \in Cores : WF_vars(CoreStepCv(c)) /\ SF_vars(ThreadReturn(c))

SpecCvFair == SpecCv /\ FairCv

\* A core arbiter that calls estimate with the current number of cores, and
\* reset, in any order.
NextEst ==
    \/ \E n \in 1 .. estimatorMaxNumCores :
          \E st \in FirstStats \cup LaterStats(previousStats) : Estimate(n, st)
    \/ Reset

\* An estimator for EstCores cores, its array holding anything.
InitEst ==
    /\ InitSched
    /\ InitLock
    /\ InitLife(NumCores, NumCores)
    /\ \E u \in [0 .. EstCores - 1 -> Garbage] : EstimatorConstructed(EstCores, u)
    /\ InitOptions
    /\ InitOldScheduler

SpecEst == InitEst /\ [][NextEst]_vars

\* The strings a command line is made of.
Dashes == <<"-", "-">>

Arguments ==
    {Dashes \o numCoresName, Dashes \o numCoresName \o <<"X">>,
     Dashes \o maxNumCoresName, Dashes \o stackSizeName, Dashes \o <<"v">>,
     Dashes, <<"-", "c">>, <<"2">>, <<"3">>, <<"x">>, <<>>}

\* init has set initialized and is about to call parseOptions: the globals
\* hold their static initial values, and no core has been started.
InitCalled ==
    /\ initialized = TRUE
    /\ numCores = 0
    /\ numCoresPrecursor = 0
    /\ maxNumCores = 0
    /\ coreChangeMutex = 0
    /\ kernelThreads = <<>>
    /\ kernelThreadStacks = <<>>
    /\ allThreadContexts = <<>>
    /\ occupiedAndCount = <<>>
    /\ priorityMaskVector = <<>>
    /\ mainPc = "init"
    /\ joinIndex = 0
    /\ inits = 1

\* Any command line of at most MaxArgc strings.
InitOpts ==
    /\ InitSched
    /\ InitLock
    /\ InitEstimator
    /\ InitCalled
    /\ InitOldScheduler
    /\ \E n \in 1 .. MaxArgc : \E rest \in [2 .. n -> Arguments] :
          /\ argv = [j \in 1 .. n |-> IF j = 1 THEN ProgramName ELSE rest[j]]
          /\ argc = n
          /\ argvGiven = argv
    /\ stackSize = DefaultStackSize
    /\ optPc = "start"

NextOpts == ParseOptions

SpecOpts == InitOpts /\ [][NextOpts]_vars

\* One core of the earlier scheduler with tasks arriving in its task box,
\* threads that yield, sleep, block and return, and signals to live threads.
NextOld ==
    \/ MainLoopPoll
    \/ MainLoopScan
    \/ TaskReturns
    \/ OldYield
    \/ YieldScan
    \/ OldSleep(1)
    \/ SleepScan
    \/ SleepReturn
    \/ OldBlock
    \/ BlockScan
    \/ \E x \in 1 .. MaxContexts : SignalContext(x)
    \/ FillTaskBox
    \/ CyclesTick

SpecOld == Init /\ [][NextOld]_vars

\* One core whose threads block and return, so that its slots are recycled,
\* with one caller outside that creates threads and another that signals
\* them: a signal can be under way while a slot is reclaimed and reused.
NextRecycle ==
    \/ Scheduler(0)
    \/ PriorityPath(0)
    \/ ExitPath(0)
    \/ Block(0)
    \/ Return(0)
    \/ CreateThread(1, {0}, SigCreates)
    \/ Signal(2, MaxSignals)

SpecRecycle == Init /\ [][NextRecycle]_vars

\* Kernel threads under a workload, growing the pool.
NextGrow == \E t \in 1 .. MaxNumCores : KernelStep(t)

\* One active core and room to grow.
InitGrow ==
    /\ InitSched
    /\ InitLock
    /\ InitEstimator
    /\ InitOptions
    /\ InitOldScheduler
    /\ \E m \in 2 .. MaxNumCores : InitLife(1, m)

SpecGrow == InitGrow /\ [][NextGrow]_vars

\* Every kernel thread keeps running, and its dispatch keeps finding a
\* runnable thread within fewer than CORE_INCREASE_THRESHOLD iterations.
FairGrow ==
    \A t \in 1 .. MaxNumCores : WF_vars(KernelProgress(t)) /\ WF_vars(QuickFind(t))

SpecGrowFair == SpecGrow /\ FairGrow

\* The library from init() to waitForTermination() and init() again: kernel
\* threads that grow the pool and leave on shutDown, and the main thread.
NextLife ==
    \/ \E t \in 1 .. MaxNumCores : KernelStep(t) \/ ThreadMainReturns(t)
    \/ ShutDown(2)
    \/ WaitForTerminationCall
    \/ WaitJoin
    \/ WaitTearDown
    \/ \E n, m \in 0 .. MaxNumCores : LibInit(n, m)

\* Any initial size and limit.
InitAny ==
    /\ InitSched
    /\ InitLock
    /\ InitEstimator
    /\ InitOptions
    /\ InitOldScheduler
    /\ \E n \in 1 .. MaxNumCores : \E m \in n .. MaxNumCores : InitLife(n, m)

SpecLife == InitAny /\ [][NextLife]_vars

\* One core whose threads block in dispatch() and return, with one caller
\* outside that creates and signals threads.
CoreStepWake(c) ==
    \/ Scheduler(c)
    \/ PriorityPath(c)
    \/ ExitPath(c)
    \/ Block(c)
    \/ Return(c)

NextWake ==
    \/ CoreStepWake(0)
    \/ CreateThread(1, {0}, SigCreates)
    \/ Signal(1, MaxSignals)

SpecWake == Init /\ [][NextWake]_vars

\* The kernel thread keeps running, and a thread that gets to its own code
\* again and again returns in the end.
FairWake == WF_vars(CoreStepWake(0)) /\ SF_vars(ThreadReturn(0))

SpecWakeFair == SpecWake /\ FairWake

\* The round trip: threads created on either core that yield and return.
CoreStepYield(c) ==
    \/ Scheduler(c)
    \/ ExitPath(c)
    \/ Yield(c)
    \/ Return(c)

NextYield ==
    \/ \E c \in Cores : CoreStepYield(c)
    \/ CreateThread(1, Cores, YieldCreates)

SpecYield == Init /\ [][NextYield]_vars

\* A createThread call under way.
CreateProgress(e) == epc[e] # "idle" /\ CreateThread(e, Cores, YieldCreates)

\* Every kernel thread keeps running, every thread yields finitely often and
\* then returns, and a createThread call under way completes.
FairYield ==
    /\ \A c \in Cores : WF_vars(CoreStepYield(c)) /\ SF_vars(ThreadReturn(c))
    /\ WF_vars(CreateProgress(1))

SpecYieldFair == SpecYield /\ FairYield

\* Cores whose threads yield, block and return, until shutDown is called
\* from outside.
CoreStepShut(c) ==
    \/ Scheduler(c)
    \/ ExitPath(c)
    \/ Yield(c)
    \/ Block(c)
    \/ Return(c)

NextShut ==
    \/ \E c \in Cores : CoreStepShut(c)
    \/ CreateThread(1, Cores, ShutCreates)
    \/ ShutDown(2)

SpecShut == Init /\ [][NextShut]_vars

\* Every kernel thread keeps running, and a thread that gets to its own code
\* again and again returns in the end.
FairShut == \A c \in Cores : WF_vars(CoreStepShut(c)) /\ SF_vars(ThreadReturn(c))

SpecShutFair == SpecShut /\ FairShut

\* Cores whose threads take, try and release one SleepLock and yield in
\* between.  No thread returns, so a holder never disappears with the lock.
CoreStepLock(c) ==
    \/ Scheduler(c)
    \/ PriorityPath(c)
    \/ Lock(c)
    \/ TryLock(c)
    \/ Unlock(c)
    \/ Yield(c)
    \/ Return(c)

NextLock ==
    \/ \E c \in Cores : CoreStepLock(c)
    \/ CreateThread(1, Cores, LockCreates)

SpecLock == Init /\ [][NextLock]_vars

\* The same cores with fewer threads and with signals from outside, which
\* wake waiters that have not been handed the lock.
NextLockSig ==
    \/ \E c \in Cores : CoreStepLock(c)
    \/ CreateThread(1, Cores, SigCreates)
    \/ Signal(2, LockSignals)

SpecLockSig == Init /\ [][NextLockSig]_vars

\* The same cores with fewer threads and nothing from outside.
NextLockPair ==
    \/ \E c \in Cores : CoreStepLock(c)
    \/ CreateThread(1, Cores, SigCreates)

SpecLockPair == Init /\ [][NextLockPair]_vars

\* Every kernel thread keeps running, a holder that gets to its own code again
\* and again calls unlock(), and a thread that does so calls yield().
FairLock ==
    \A c \in Cores : /\ WF_vars(CoreStepLock(c))
                     /\ SF_vars(UnlockEnter(c))
                     /\ SF_vars(Yield(c))

SpecLockFair == SpecLockPair /\ FairLock

(* ------------------------ occupancy word (SpecOcc) --------------------- *)

\* C1: on every core the number of set bits of occupied equals numOccupied,
\* and numOccupied never exceeds the number of slots of the core.
OccupancyCountMatches ==
    \A c \in Cores :
        /\ Cardinality(occupied[c]) = numOccupied[c]
        /\ numOccupied[c] <= maxThreadsPerCore

\* A core that is full again after one of its threads has exited, while
\* another exit is about to clear its bit.
OccupancyCountWitness ==
    \E c \in Cores :
        /\ numOccupied[c] = maxThreadsPerCore
        /\ pc[c] = "x_cas"
        /\ \E k \in Slots : generation[c][k] > 1

\* A createThread call that this step makes return the null id.
ReturnsNull(e) == epc[e] # "c_null" /\ epc'[e] = "c_null"

\* C3: createThread returns the null id only from a core all of whose slots
\* are occupied, and then changes nothing of the shared state and issues no
\* id; a call that finds numOccupied equal to the slot count returns null.
\* So of maxThreadsPerCore + 1 creations on an empty core with no exit in
\* between exactly one returns null, and a creation retried after an exit
\* has released its slot does not.
FullCoreReturnsNull ==
    [][\A e \in Ext :
          /\ ReturnsNull(e) =>
                /\ occupied[eCore'[e]] = Slots
                /\ numOccupied[eCore'[e]] = maxThreadsPerCore
                /\ UNCHANGED <<sharedVars, issued>>
          /\ (epc[e] \in {"idle", "c_load"} /\ epc'[e] = "c_cas") =>
                /\ numOccupied[eCore'[e]] < maxThreadsPerCore
                /\ occupied[eCore'[e]] # Slots]_vars

\* maxThreadsPerCore creations have taken the slots of a core none of whose
\* threads has exited, and one more creation holds the null id.
FullCoreWitness ==
    \E e \in Ext :
        /\ epc[e] = "c_null"
        /\ created = maxThreadsPerCore
        /\ occupied[eCore[e]] = Slots
        /\ \A k \in Slots : generation[eCore[e]][k] = 1

\* The creations that hold a slot they have not published yet.
Reserved(c, k) == {e \in Ext : epc[e] = "c_pub" /\ eCore[e] = c /\ eIndex[e] = k}

\* The thread of slot k of core c is running or in its exit path.
Loaded(c, k) ==
    /\ loadedContext[c] = k
    /\ pc[c] \in {"user", "ret", "x_unocc", "x_gen", "x_lock", "x_notify", "x_sig",
                  "x_sigcas", "x_sigor", "x_load", "x_cas"}

\* C4: no update of the occupancy word is lost.  A slot reserved by a
\* creation in flight keeps its bit, belongs to that creation alone and to no
\* live thread; every live thread keeps its bit; and a successful creation
\* takes the lowest slot that was free in the word its CAS replaced.
NoLostOccupancyUpdate ==
    /\ [](\A c \in Cores, k \in Slots :
            /\ Reserved(c, k) # {} =>
                  /\ k \in occupied[c]
                  /\ Cardinality(Reserved(c, k)) = 1
                  /\ wakeupTimeInCycles[c][k] = UNOCCUPIED
                  /\ ~ Loaded(c, k)
            /\ (wakeupTimeInCycles[c][k] # UNOCCUPIED \/ Loaded(c, k)) => k \in occupied[c])
    /\ [][\A e \in Ext :
            (epc[e] = "c_cas" /\ epc'[e] = "c_pub") =>
               LET c == eCore[e]
                   k == eIndex'[e]
               IN /\ k \in Slots \ occupied[c]
                  /\ \A j \in Slots : j < k => j \in occupied[c]
                  /\ occupied'[c] = occupied[c] \cup {k}]_vars

\* A creation has reserved a slot while a thread of the same core is between
\* the load and the CAS of its exit path: that CAS has to fail.
NoLostUpdateWitness ==
    \E e \in Ext :
        /\ epc[e] = "c_pub"
        /\ pc[eCore[e]] = "x_cas"
        /\ slotMap[eCore[e]] # MaskAndCount(occupied[eCore[e]], numOccupied[eCore[e]])


(* ------------------- wake-up times and signals (SpecSig) --------------- *)

\* A creation has reserved slot k of core c and not yet published wakeup 0.
InCreateWindow(c, k) == Reserved(c, k) # {}

\* The thread of slot k of core c has written UNOCCUPIED in its exit path
\* (line 267) and not yet cleared its bit (lines 284-296).
InExitWindow(c, k) ==
    /\ loadedContext[c] = k
    /\ pc[c] \in {"x_gen", "x_lock", "x_notify", "x_sig", "x_sigcas", "x_sigor",
                  "x_load", "x_cas"}

\* C2: a slot whose occupied bit is clear has wakeupTimeInCycles UNOCCUPIED;
\* a slot whose bit is set has UNOCCUPIED only between a creation's CAS and
\* its publication of 0, or between an exit's store of UNOCCUPIED and its
\* clearing of the bit.
FreeSlotIsUnoccupied ==
    \A c \in Cores, k \in Slots :
        /\ k \notin occupied[c] => wakeupTimeInCycles[c][k] = UNOCCUPIED
        /\ (k \in occupied[c] /\ wakeupTimeInCycles[c][k] = UNOCCUPIED) =>
              (InCreateWindow(c, k) \/ InExitWindow(c, k))

\* A signal that read the wakeup time of a thread before it exited is about
\* to do its cmpxchg on the slot, which is now in the exit window.
FreeSlotWitness ==
    \E e \in Ext, k \in Slots :
        /\ epc[e] = "s_cas"
        /\ eId[e].core = 0 /\ eId[e].slot = k
        /\ InExitWindow(0, k)
        /\ wakeupTimeInCycles[0][k] = UNOCCUPIED

\* A step of the signal call of e after its read of the wakeup time.
SignalActs(e) == epc[e] \in {"s_cas", "s_or"} /\ epc'[e] # epc[e]

SleepReachesDeadline ==
    \A c \in Cores :
        (pc[c] = "ret" /\ caller[c][loadedContext[c]] = "sleep") =>
            clock >= sleepUntil[c][loadedContext[c]]

\* C10: yield returns only when every other thread of the core that was
\* runnable at the call has been switched to.
YieldRunsOthers ==
    \A c \in Cores :
        (pc[c] = "ret" /\ caller[c][loadedContext[c]] = "yield") =>
            owed[c][loadedContext[c]] = {}

(* ------------------------------ join (SpecJoin) ------------------------ *)

\* The thread that join(id) of slot k of core c names has exited.
TargetDone(c, k) ==
    LET id == joinId[c][k]
    IN id # NullThread /\ generation[id.core][id.slot] > id.gen

\* C6: join(id) called after the exit path of the thread has incremented the
\* generation returns at once: it puts nothing on blockedThreads, does not
\* call dispatch and leaves joinLock free, whoever occupies the slot now.
StaleJoinReturnsAtOnce ==
    [][\A c \in Cores :
          LET k == loadedContext[c]
              id == joinId'[c][k]
          IN (pc[c] = "user" /\ caller'[c][k] = "join"
                /\ id.gen < generation[id.core][id.slot]) =>
                /\ pc'[c] = "ret"
                /\ UNCHANGED <<sharedVars, loadedContext>>]_vars

\* join has returned at once for an id whose slot holds a later thread.
StaleJoinWitness ==
    \E c \in Cores :
        LET k == loadedContext[c]
            id == joinId[c][k]
        IN /\ pc[c] = "ret" /\ caller[c][k] = "join"
           /\ TargetDone(c, k)
           /\ wakeupTimeInCycles[id.core][id.slot] # UNOCCUPIED
           /\ \A i \in 1 .. Len(blockedThreads[id.core][id.slot]) :
                 blockedThreads[id.core][id.slot][i].core # c
                   \/ blockedThreads[id.core][id.slot][i].slot # k

\* C7: join(id) of a thread other than the caller returns only when the
\* generation of the slot is greater than id.generation.
JoinReturnsAfterExit ==
    \A c \in Cores :
        LET k == loadedContext[c]
        IN (pc[c] = "ret" /\ caller[c][k] = "join"
              /\ (joinId[c][k].core # c \/ joinId[c][k].slot # k)) =>
              TargetDone(c, k)

\* C8: a thread in join(id) whose target has exited eventually returns from
\* join, whichever cores the two threads run on.
JoinEventuallyReturns ==
    \A c \in Cores, k \in Slots :
        (caller[c][k] = "join" /\ TargetDone(c, k)) ~> (caller[c][k] # "join")

\* A joiner is still on blockedThreads of a target on another core whose exit
\* path has incremented the generation and not yet notified.
JoinEventuallyWitness ==
    \E c \in Cores, k \in Slots :
        LET id == joinId[c][k]
        IN /\ caller[c][k] = "join"
           /\ TargetDone(c, k)
           /\ id.core # c
           /\ pc[id.core] \in {"x_lock", "x_notify"}
           /\ loadedContext[id.core] = id.slot
           /\ \E i \in 1 .. Len(blockedThreads[id.core][id.slot]) :
                 /\ blockedThreads[id.core][id.slot][i].core = c
                 /\ blockedThreads[id.core][id.slot][i].slot = k

(* ----------------------- signal to a running thread -------------------- *)

\* Slot k of core c holds the thread that runs its own code now.
Running(c, k) == loadedContext[c] = k /\ pc[c] = "user"

\* C11: a signal to a running thread sets its wakeupTimeInCycles to 0; the
\* value stays 0 until the thread calls dispatch(), and a thread that has
\* called dispatch() with wakeupTimeInCycles 0 gets the core back from
\* dispatch with no further signal.
SignalToRunningWakes ==
    /\ [][\A e \in Ext :
            (epc[e] = "s_cas" /\ epc'[e] = "s_or" /\ eOld[e] = BLOCKED
               /\ Running(eId[e].core, eId[e].slot)) =>
                  wakeupTimeInCycles'[eId[e].core][eId[e].slot] = 0]_vars
    /\ [][\A c \in Cores :
            LET k == loadedContext[c]
            IN (Running(c, k) /\ wakeupTimeInCycles[c][k] = 0
                  /\ (Running(c, k)' \/ (pc'[c] = "dispatch" /\ caller'[c][k] = "block"))) =>
                  wakeupTimeInCycles'[c][k] = 0]_vars
    /\ \A k \in Slots :
          (caller[0][k] = "block" /\ wakeupTimeInCycles[0][k] = 0)
             ~> (pc[0] = "ret" /\ loadedContext[0] = k)

\* A thread that was signalled while it ran enters dispatch() with
\* wakeupTimeInCycles 0 while another thread of the core is runnable.
SignalToRunningWitness ==
    \E k \in Slots :
        /\ loadedContext[0] = k /\ pc[0] = "dispatch" /\ caller[0][k] = "block"
        /\ wakeupTimeInCycles[0][k] = 0
        /\ Runnable(0) # {}

(* ------------------------------ round trip ---------------------------- *)

\* No slot of any core is in use.
AllUnoccupied ==
    \A c \in Cores :
        /\ occupied[c] = {} /\ numOccupied[c] = 0
        /\ \A k \in Slots : wakeupTimeInCycles[c][k] = UNOCCUPIED

\* C12: threads that yield some number of times and return all finish: from
\* some point on every occupancy word has no bit and count 0, and every
\* wakeupTimeInCycles is UNOCCUPIED.
RoundTripCompletes == <>[]AllUnoccupied

\* All the threads of the round trip are on one core, which is full, and
\* the running one has yielded to another.
RoundTripWitness ==
    \E c \in Cores :
        /\ created = YieldCreates
        /\ numOccupied[c] = maxThreadsPerCore
        /\ pc[c] = "ret" /\ caller[c][loadedContext[c]] = "yield"
        /\ \E k \in Slots : generation[c][k] > 1

(* ------------------------------- shutDown ------------------------------ *)

\* C13: once shutDown has set the flag and no slot is in use, every core
\* sees the flag at a wrap of its scan and leaves the scheduler for its
\* kernel stack, which is what waitForTermination waits for.
ShutdownStopsCores ==
    (shutdown /\ AllUnoccupied) ~> (\A c \in Cores : pc[c] = "exited")

\* The flag is set and the last thread has finished while a core is still
\* in its scheduler.
ShutdownWitness ==
    /\ shutdown /\ AllUnoccupied
    /\ \E c \in Cores : pc[c] = "x_prio"
    /\ \E c \in Cores : pc[c] # "exited" /\ \E k \in Slots : generation[c][k] > 1

\* C14: a core leaves its scheduler for its kernel stack only when none of
\* its slots holds a thread that has not finished.
ExitsOnlyWhenIdle ==
    [][\A c \in Cores :
          (pc[c] # "exited" /\ pc'[c] = "exited") =>
              \A k \in Slots : wakeupTimeInCycles[c][k] = UNOCCUPIED]_vars

\* The contexts between a return of lock() (or a true return of try_lock())
\* and the matching unlock().
Holders == {x \in Cores \X Slots : holding[x[1]][x[2]]}

\* C16: at most one thread at a time is between a successful return of lock()
\* or try_lock() and its unlock(), that thread is the owner, and lock() is
\* about to return only on a core whose loaded context is the owner,
\* whatever wake-ups the waiters receive.
SleepLockMutualExclusion ==
    /\ Cardinality(Holders) <= 1
    /\ \A x \in Holders : owner = x
    /\ \A c \in Cores :
          (pc[c] = "ret" /\ caller[c][loadedContext[c]] = "lock") => owner = Self(c)

\* A waiter has been woken without being handed the lock and is at the loop
\* test of lock() while another thread holds the lock.
SleepLockSpuriousWitness ==
    \E c \in Cores :
        /\ pc[c] = "l_check"
        /\ owner # Self(c)
        /\ owner \in Holders

\* A step in which the thread running on core c enters unlock().
UnlockCalled(c) ==
    /\ holding[c][loadedContext[c]]
    /\ ~holding'[c][loadedContext[c]]

\* The thread named by id has been woken: its wakeup time is 0, or its
\* dispatch() has returned since.
Woken(id) ==
    \/ wakeupTimeInCycles[id.core][id.slot] = 0
    \/ /\ loadedContext[id.core] = id.slot
       /\ pc[id.core] \in {"l_check", "ret", "user"}

\* C17: unlock with waiters queued makes the front waiter the owner in the
\* step that gives the lock up and has signalled it when it pops the queue;
\* unlock with nobody queued makes owner NULL; owner is never NULL while a
\* waiter is queued, and it passes from one thread to another only to the
\* front of the queue.
UnlockHandsOff ==
    /\ [](owner = NoContext => lockQueue = <<>>)
    /\ [][/\ \A c \in Cores :
                UnlockCalled(c) =>
                    IF lockQueue = <<>>
                      THEN owner' = NoContext
                      ELSE /\ owner' = ContextOf(Head(lockQueue))
                           /\ sigId'[c] = Head(lockQueue)
          /\ \A c \in Cores :
                (pc[c] = "u_pop" /\ pc'[c] # "u_pop") =>
                    /\ lockQueue' = Tail(lockQueue)
                    /\ owner = ContextOf(Head(lockQueue))
                    /\ Woken(Head(lockQueue))
          /\ (owner # NoContext /\ owner' # owner /\ owner' # NoContext) =>
                (lockQueue # <<>> /\ owner' = ContextOf(Head(lockQueue)))]_vars

\* unlock is about to pop the first of two queued waiters, which it has made
\* the owner.
UnlockHandsOffWitness ==
    \E c \in Cores :
        /\ pc[c] = "u_pop"
        /\ Len(lockQueue) = 2
        /\ owner = ContextOf(Head(lockQueue))

\* Context k of core c is in lock() and has not been given the lock yet.
InLock(c, k) == caller[c][k] = "lock" /\ ~holding[c][k]

\* C18: a thread that has called lock() returns from it as the holder,
\* provided holders unlock and the cores keep dispatching.
LockEventuallyReturns ==
    \A c \in Cores, k \in Slots : InLock(c, k) ~> holding[c][k]

\* unlock has handed the lock to a waiter that has dropped the queue guard
\* and has not called dispatch() yet.
LockWindowWitness ==
    \E c, d \in Cores :
        /\ pc[c] = "u_sig"
        /\ d # c
        /\ pc[d] = "dispatch"
        /\ InLock(d, loadedContext[d])
        /\ owner = Self(d)

(* --------------------------- ConditionVariable ------------------------- *)

\* Core c is inside joinCV.notifyAll() of its loaded context, joinLock held.
Notifying(c) == pc[c] \in {"x_notify", "x_sig", "x_sigcas", "x_sigor"}

\* The waiters queued on joinCV of the context loaded on core c.
Waiters(c) == blockedThreads[c][loadedContext[c]]

\* After the step the waiter named by id is runnable, or its dispatch() has
\* returned.
Resumable(id) ==
    \/ wakeupTimeInCycles'[id.core][id.slot] = 0
    \/ /\ loadedContext'[id.core] = id.slot
       /\ pc'[id.core] \in {"j_relock", "ret", "user"}

\* Context j of core d waits on joinCV of the context loaded on core c.
WaitsOn(d, j, c) ==
    /\ caller[d][j] = "join"
    /\ \E i \in 1 .. Len(Waiters(c)) :
          Waiters(c)[i].core = d /\ Waiters(c)[i].slot = j

\* C19: with the notifier holding the lock, each notifyOne takes exactly the
\* front waiter off the queue and signals it (and does nothing on an empty
\* queue), nobody joins the queue during notifyAll, notifyAll ends with the
\* queue empty, and every waiter queued when notifyAll starts resumes from its
\* dispatch().
NotifyWakesWaiters ==
    /\ [][\A c \in Cores :
            /\ (pc[c] = "x_notify" /\ pc'[c] # "x_notify") =>
                  IF Waiters(c) = <<>>
                    THEN /\ pc'[c] = "x_load"
                         /\ blockedThreads' = blockedThreads
                         /\ sigId' = sigId
                         /\ wakeupTimeInCycles' = wakeupTimeInCycles
                    ELSE /\ pc'[c] = "x_sig"
                         /\ sigId'[c] = Head(Waiters(c))
                         /\ blockedThreads' =
                               [blockedThreads EXCEPT ![c][loadedContext[c]] = Tail(@)]
            /\ (Notifying(c) /\ pc'[c] = pc[c]) =>
                  blockedThreads'[c][loadedContext[c]] = Waiters(c)
            /\ (pc[c] \in {"x_sig", "x_sigor"} /\ pc'[c] = "x_notify") =>
                  Resumable(sigId[c])]_vars
    /\ \A d \in Cores, j \in Slots :
          (\E c \in Cores : pc[c] = "x_notify" /\ WaitsOn(d, j, c)) ~>
              (loadedContext[d] = j /\ pc[d] = "j_relock")

\* notifyAll is about to start with two waiters queued.
NotifyWakesWitness ==
    \E c \in Cores :
        /\ pc[c] = "x_notify"
        /\ Len(Waiters(c)) = 2
        /\ Waiters(c)[1] # Waiters(c)[2]

(* --------------------------- waitForTermination ------------------------ *)

\* The per-core vectors that init() and joinKernelThreadPool push onto.
PerCoreVectors == {allThreadContexts, occupiedAndCount, priorityMaskVector}

\* C15: when waitForTermination has returned, initialized is false and
\* kernelThreads, kernelThreadStacks, allThreadContexts, occupiedAndCount and
\* publicPriorityMasks are empty; and after the following init element i of
\* every per-core vector is the one made for core i by that init.
TearDownRestores ==
    /\ mainPc = "done" =>
          /\ ~initialized
          /\ kernelThreads = <<>>
          /\ kernelThreadStacks = <<>>
          /\ allThreadContexts = <<>>
          /\ occupiedAndCount = <<>>
          /\ priorityMaskVector = <<>>
    /\ (mainPc = "app" /\ inits > 1) =>
          \A v \in PerCoreVectors :
              \A i \in 1 .. Len(v) : v[i] = Entry(inits, i - 1)

(* ------------------------------ core growth ---------------------------- *)

\* The kernel threads that incrementCoreCount has started and that have not
\* registered themselves yet.
Unregistered ==
    {t \in DOMAIN kernelThreads : kernelThreads[t].st \in {"jp_alloc", "jp_lock", "jp_cs"}}

\* The kernel threads that have a kernelThreadId.
Registered == DOMAIN kernelThreads \ Unregistered

\* C20: from one core and maxNumCores above one, under a workload that keeps
\* every dispatch short, numCores never exceeds numCoresPrecursor, which
\* never exceeds maxNumCores, and their difference is the number of started
\* kernel threads still to register; the registered kernel threads have the
\* ids 0 .. numCores - 1; every started kernel thread registers; and in the
\* end numCores = numCoresPrecursor = maxNumCores for good.
GrowsToMaxNumCores ==
    /\ [](/\ numCores <= numCoresPrecursor
          /\ numCoresPrecursor <= maxNumCores
          /\ numCoresPrecursor - numCores = Cardinality(Unregistered)
          /\ Len(occupiedAndCount) = numCores
          /\ Len(allThreadContexts) = numCores
          /\ Len(priorityMaskVector) = numCores
          /\ Len(kernelThreadStacks) = numCores
          /\ {kernelThreads[t].id : t \in Registered} = 0 .. numCores - 1)
    /\ \A t \in 1 .. MaxNumCores :
          (t \in Unregistered) ~> (t \in Registered)
    /\ <>[](numCores = maxNumCores /\ numCoresPrecursor = maxNumCores)

\* The pool has grown from one kernel thread to the largest limit, and every
\* kernel thread has registered.
GrowsWitness ==
    /\ numCores = MaxNumCores
    /\ Len(kernelThreads) = MaxNumCores
    /\ Registered = 1 .. MaxNumCores
    /\ \A t \in Registered : kernelThreads[t].st = "run"

(* --------------------------- CoreLoadEstimator ------------------------- *)

\* The step is a call of estimate.
EstimateCalled == lastCall' = "estimate"

\* C21: a call of estimate with no sample recorded returns 0 whatever its
\* argument and the statistics are, stores the collected statistics as the
\* baseline, and writes no element of utilizationThresholds.
FirstEstimateHolds ==
    [][(EstimateCalled /\ previousStats.collectionTime = 0) =>
          /\ estimateResult' = 0
          /\ previousStats' \in FirstStats
          /\ previousStats'.collectionTime # 0
          /\ utilizationThresholds' = utilizationThresholds
          /\ thresholdWritten' = thresholdWritten]_vars

\* The first call has been made, with the largest core count, over an array
\* of large values.
FirstEstimateWitness ==
    /\ lastCall = "estimate"
    /\ previousStats.collectionTime # 0
    /\ currentStats.collectionTime = 0
    /\ curActiveCores = estimatorMaxNumCores
    /\ estimateResult = 0
    /\ \A i \in DOMAIN utilizationThresholds : utilizationThresholds[i].n > 0

\* The differences between the sample of the call and the stored one.
DeltaIdle == currentStats'.idleCycles - previousStats.idleCycles

DeltaTotal == currentStats'.totalCycles - previousStats.totalCycles

DeltaWeighted ==
    currentStats'.weightedLoadedCycles - previousStats.weightedLoadedCycles

DeltaElapsed ==
    (currentStats'.collectionTime - previousStats.collectionTime) * CyclesPerNanosecond

\* The utilized-core figure of the call.
UtilizedFigure == Frac(DeltaTotal - DeltaIdle, DeltaElapsed)

\* The call is made below the limit with a load factor over the threshold.
GrowCase ==
    /\ curActiveCores' < estimatorMaxNumCores
    /\ FracLess(loadFactorThreshold, Frac(DeltaWeighted, DeltaTotal))

\* The utilized-core figure is under the stored threshold less the
\* hysteresis, and the slot occupancy is under its threshold.
ShrinkCase ==
    /\ FracLess(UtilizedFigure,
                FracMinus(utilizationThresholds[curActiveCores' - 1],
                          idleCoreFractionHysteresis))
    /\ FracLess(Frac(currentStats'.numThreadsCreated - currentStats'.numThreadsFinished,
                     curActiveCores' * maxThreadsPerCore),
                slotOccupancyThreshold)

\* C22: a call of estimate with a sample recorded returns 1 exactly when the
\* core count is below maxNumCores and the average load factor exceeds
\* loadFactorThreshold, and then stores the utilized-core figure at index
\* activeCores and nowhere else; otherwise it returns -1 exactly when the
\* figure is below thresholds[activeCores - 1] less the hysteresis and the
\* slot occupancy is below slotOccupancyThreshold; otherwise 0.  No other
\* call writes the array.
LaterEstimateDecides ==
    [][(EstimateCalled /\ previousStats.collectionTime # 0) =>
          /\ estimateResult' \in {-1, 0, 1}
          /\ (estimateResult' = 1) <=> GrowCase
          /\ (estimateResult' = -1) <=> (~GrowCase /\ ShrinkCase)
          /\ curActiveCores' >= estimatorMaxNumCores => estimateResult' # 1
          /\ utilizationThresholds' =
                IF GrowCase
                  THEN [utilizationThresholds EXCEPT ![curActiveCores'] = UtilizedFigure]
                  ELSE utilizationThresholds]_vars

\* estimate has recommended growing from one core, recording the figure, and
\* a later call at two cores has recommended shrinking against it.
LaterEstimateWitness ==
    /\ lastCall = "estimate"
    /\ estimateResult = -1
    /\ curActiveCores = 2
    /\ thresholdWritten[1]
    /\ utilizationThresholds[1] = Frac(1, 2 * CyclesPerNanosecond)

\* C23: estimate returns -1 at a core count n only when a recommendation to
\* grow from n - 1 cores has recorded a utilization at index n - 1, and the
\* current utilized-core figure is below that recorded value by more than
\* the hysteresis.
ShrinkOnlyBelowRecorded ==
    [][(EstimateCalled /\ estimateResult' = -1) =>
          /\ thresholdWritten[curActiveCores' - 1]
          /\ FracLess(UtilizedFigure,
                      FracMinus(utilizationThresholds[curActiveCores' - 1],
                                idleCoreFractionHysteresis))]_vars

\* C24: the call of estimate that follows reset returns 0.
EstimateAfterResetHolds ==
    [][(lastCall = "reset" /\ EstimateCalled) => estimateResult' = 0]_vars

(* ----------------------------- parseOptions ---------------------------- *)

\* The three options parseOptions is to consume.
ConsumedOptions ==
    {Dashes \o numCoresName, Dashes \o maxNumCoresName, Dashes \o stackSizeName}

\* The arguments of av from position j on, with each of the three options
\* that has an argument removed together with that argument.
RECURSIVE Remaining(_, _)
Remaining(av, j) ==
    IF j > Len(av) THEN <<>>
    ELSE IF av[j] \in ConsumedOptions /\ j < Len(av) THEN Remaining(av, j + 2)
    ELSE <<av[j]>> \o Remaining(av, j + 1)

\* C25: after parseOptions the first argc strings of argv are the program
\* name followed by the original arguments without the options --numCores,
\* --maxNumCores and --stackSize and their arguments, in the original order;
\* every other string, a longer name that starts with an option name and an
\* option without its argument included, is kept.
OnlyOptionsConsumed ==
    optPc = "parsed" =>
        /\ argc = 1 + Len(Remaining(argvGiven, 2))
        /\ SubSeq(argv, 1, argc) = <<argvGiven[1]>> \o Remaining(argvGiven, 2)

(* ------------------------- the earlier scheduler ----------------------- *)

\* C26: in the earlier scheduler, sleep(ns) returns to its caller only when
\* the cycle counter has reached the wake time computed at the call, that
\* is, when at least ns have passed.
SleepLastsNs ==
    [][\A x \in 1 .. MaxContexts :
          (sleepCalled[x] /\ ~sleepCalled'[x]) => cycles' >= wakeUpTimeInCycles[x]]_vars

(* --------------------------- signal and dispatch ----------------------- *)

\* The positions of a kernel thread inside dispatch().
DispatchPcs == {"dispatch", "d_pload", "d_pclear", "d_prio", "d_scan"}

\* The thread of slot k of core c has called dispatch() and has not been
\* resumed: its context is switched out, or it is the one that searches.
Suspended(c, k) ==
    /\ k \in occupied[c]
    /\ caller[c][k] \in {"block", "yield", "sleep", "join", "lock"}
    /\ loadedContext[c] = k => pc[c] \in DispatchPcs

\* dispatch() has returned into the thread of slot k of core c.
Resumed(c, k) == loadedContext[c] = k /\ pc[c] \notin DispatchPcs

\* C27: while a thread is suspended in dispatch(), its wakeupTimeInCycles is
\* written only by signal, which stores 0, and by the dispatcher at the
\* moment it resumes that very thread, which stores BLOCKED; the cmpxchg of
\* a signal that read the field while the thread was suspended therefore
\* leaves 0, the 0 stays until the thread is selected, and the thread is
\* resumed in the end while its core keeps dispatching.
SignalNotClobbered ==
    /\ [][\A c \in Cores, k \in Slots :
            (Suspended(c, k) /\ wakeupTimeInCycles'[c][k] # wakeupTimeInCycles[c][k]) =>
               \/ wakeupTimeInCycles'[c][k] = 0
                    /\ \E e \in Ext : epc[e] = "s_cas" /\ epc'[e] = "s_or"
                                        /\ eId[e].core = c /\ eId[e].slot = k
               \/ wakeupTimeInCycles'[c][k] = BLOCKED /\ Resumed(c, k)']_vars
    /\ [][\A e \in Ext :
            (epc[e] = "s_cas" /\ epc'[e] = "s_or"
               /\ Suspended(eId[e].core, eId[e].slot)
               /\ wakeupTimeInCycles[eId[e].core][eId[e].slot] \in {eOld[e], 0}) =>
                  wakeupTimeInCycles'[eId[e].core][eId[e].slot] = 0]_vars
    /\ \A k \in Slots :
          (Suspended(0, k) /\ wakeupTimeInCycles[0][k] = 0) ~> Resumed(0, k)

\* A signal has stored 0 for a blocked thread that is switched out, while
\* another thread runs on its core.
SignalNotClobberedWitness ==
    \E e \in Ext, k \in Slots :
        /\ epc[e] = "s_or" /\ eId[e].core = 0 /\ eId[e].slot = k
        /\ eId[e].gen = generation[0][k]
        /\ Suspended(0, k) /\ caller[0][k] = "block"
        /\ loadedContext[0] # k /\ pc[0] = "user"
        /\ wakeupTimeInCycles[0][k] = 0

(* ------------------------------ core growth ---------------------------- *)

\* C28: whatever the order in which the dispatchers of several cores call
\* incrementCoreCount and new kernel threads join the pool, numCores is at
\* most numCoresPrecursor, which is at most maxNumCores; numCoresPrecursor
\* changes only by one, in the very step that starts one kernel thread, and
\* no kernel thread is started otherwise; the kernel threads that have
\* joined have pairwise different kernelThreadIds; and the occupancy word
\* and the slot table pushed by the kernel thread with id i are element i of
\* occupiedAndCount and of allThreadContexts.
CoreCountsConsistent ==
    /\ [](/\ numCores <= numCoresPrecursor
          /\ numCoresPrecursor <= maxNumCores
          /\ \A t, u \in Registered :
                t # u => kernelThreads[t].id # kernelThreads[u].id
          /\ \A t \in Registered :
                /\ kernelThreads[t].id + 1 \in DOMAIN occupiedAndCount
                /\ kernelThreads[t].id + 1 \in DOMAIN allThreadContexts
                /\ occupiedAndCount[kernelThreads[t].id + 1].core = kernelThreads[t].id
                /\ allThreadContexts[kernelThreads[t].id + 1].core = kernelThreads[t].id)
    /\ [][/\ numCoresPrecursor' # numCoresPrecursor =>
                /\ numCoresPrecursor' = numCoresPrecursor + 1
                /\ Len(kernelThreads') = Len(kernelThreads) + 1
          /\ Len(kernelThreads') # Len(kernelThreads) =>
                numCoresPrecursor' = numCoresPrecursor + 1]_vars

\* Two dispatchers have decided to grow the pool at the same limit: one has
\* started the last kernel thread, which has not joined yet, and the other
\* holds the mutex and finds the limit reached.
CoreCountsWitness ==
    \E t \in DOMAIN kernelThreads :
        /\ kernelThreads[t].st = "inc_cs"
        /\ numCoresPrecursor = maxNumCores
        /\ numCores = 2
        /\ Cardinality(Unregistered) = 1

(* ------------------------------ the scan ------------------------------- *)

\* The step is one in which the round-robin scan of core c selects a slot,
\* which is then the loaded context.
ScanSelects(c) == pc[c] = "d_scan" /\ pc'[c] \notin {"d_scan", "exited"}

\* The slots of core c that are occupied in the dispatcher's snapshot and
\* whose wakeup time is at most the clock value sampled.
Due(c) == {j \in mask[c] : wakeupTimeInCycles[c][j] <= currentCycles[c]}

\* The first element of the set of slots due at or after index i in cyclic
\* order.
FirstCyclic(i, due) ==
    IF \E j \in due : j >= i THEN LowestSet({j \in due : j >= i}) ELSE LowestSet(due)

\* C29 as stated: the slot the scan selects is occupied in the latest
\* snapshot with a wakeup time at most the sampled clock value, so neither
\* UNOCCUPIED nor BLOCKED nor in the future, and it is the first such slot
\* at or after nextCandidateIndex in cyclic order.
ScanSelectsFirstDue ==
    [][\A c \in Cores :
          ScanSelects(c) =>
             LET k == loadedContext'[c]
             IN /\ k \in Due(c)
                /\ wakeupTimeInCycles[c][k] \notin {UNOCCUPIED, BLOCKED}
                /\ wakeupTimeInCycles[c][k] <= clock
                /\ k = FirstCyclic(nextCandidateIndex[c], Due(c))]_vars

\* C29 as the code has it: the slot the scan selects is occupied in the
\* latest snapshot with a wakeup time at most the sampled clock value, so
\* neither UNOCCUPIED nor BLOCKED nor in the future; it is the first slot
\* of the snapshot at or after the position the scan has reached, having
\* passed the slots it found not due when it read them; and
\* nextCandidateIndex becomes the index after it.
ScanSelectsDue ==
    [][\A c \in Cores :
          ScanSelects(c) =>
             LET k == loadedContext'[c]
             IN /\ k \in Due(c)
                /\ wakeupTimeInCycles[c][k] \notin {UNOCCUPIED, BLOCKED}
                /\ wakeupTimeInCycles[c][k] <= clock
                /\ k >= currentIndex[c]
                /\ \A j \in mask[c] : ~(currentIndex[c] <= j /\ j < k)
                /\ nextCandidateIndex'[c] = (k + 1) % maxThreadsPerCore]_vars

\* The scan has returned into a sleeping thread that no signal woke, with
\* its wake time reached.
ScanSelectsWitness ==
    \E k \in Slots :
        /\ pc[0] = "ret" /\ loadedContext[0] = k /\ caller[0][k] = "sleep"
        /\ signalled = 0
        /\ sleepUntil[0][k] <= clock
        /\ nextCandidateIndex[0] = (k + 1) % maxThreadsPerCore

(* --------------------------- the priority path ------------------------- *)

\* The step is the priority path of dispatch() on core c.
PriorityStep(c) == pc[c] = "d_prio" /\ pc'[c] # "d_prio"

\* C30: the priority path removes the lowest set bit k of the private
\* priority mask and nothing else from it; it hands the core to slot k only
\* if slot k is occupied, in the snapshot and in fact, and its
\* wakeupTimeInCycles is exactly 0, so never to an unoccupied, blocked or
\* sleeping slot; otherwise it goes on to the round-robin scan with bit k
\* cleared, the loaded context and every wakeup time as they were.
PriorityBitConsumed ==
    [][\A c \in Cores :
          PriorityStep(c) =>
             LET k == LowestSet(privatePriorityMask[c])
             IN /\ privatePriorityMask[c] # {}
                /\ privatePriorityMask'[c] = privatePriorityMask[c] \ {k}
                /\ IF pc'[c] = "d_scan"
                     THEN /\ wakeupTimeInCycles[c][k] # 0 \/ k \notin mask[c]
                          /\ loadedContext'[c] = loadedContext[c]
                          /\ wakeupTimeInCycles' = wakeupTimeInCycles
                          /\ nextCandidateIndex' = nextCandidateIndex
                     ELSE /\ loadedContext'[c] = k
                          /\ k \in mask[c]
                          /\ k \in occupied[c]
                          /\ wakeupTimeInCycles[c][k] = 0
                          /\ pc'[c] \notin DispatchPcs \/ caller[c][k] = "fresh"]_vars

\* The priority path has consumed the bit of slot 0, which was not to run,
\* and has gone on to the scan with the bit of slot 1 left.
PriorityBitWitness ==
    /\ pc[0] = "d_scan"
    /\ privatePriorityMask[0] = {1}
    /\ wakeupTimeInCycles[0][0] # 0

(* ------------------------ draining the public mask --------------------- *)

\* The step is the OR of lines 466-467 of some signal(id), from outside the
\* cores, from notifyOne in an exit path or from unlock, with id naming
\* slot k of core c.
OrTakesEffect(c, k) ==
    \/ \E e \in Ext :
          /\ epc[e] = "s_or" /\ epc'[e] # "s_or"
          /\ eId[e].core = c /\ eId[e].slot = k
    \/ \E d \in Cores :
          /\ pc[d] \in {"x_sigor", "u_sigor"} /\ pc'[d] # pc[d]
          /\ sigId[d].core = c /\ sigId[d].slot = k

\* Core c has copied the public mask (line 364) and not yet cleared it.
Draining(c) == pc[c] = "d_pclear"

\* What dispatch() does to the masks of core c: the copy makes the private
\* mask the public one, between the copy and the clear the private mask is
\* kept and the public one loses no bit, and the clear takes the private
\* bits, and no other, out of the public mask.
CopyThenClear(c) ==
    /\ (pc[c] = "d_pload" /\ pc'[c] # "d_pload") =>
          /\ privatePriorityMask[c] = {}
          /\ privatePriorityMask'[c] = publicPriorityMasks[c]
          /\ publicPriorityMasks'[c] = publicPriorityMasks[c]
    /\ (Draining(c) /\ Draining(c)') =>
          /\ privatePriorityMask'[c] = privatePriorityMask[c]
          /\ publicPriorityMasks[c] \subseteq publicPriorityMasks'[c]
    /\ (Draining(c) /\ ~Draining(c)') =>
          /\ privatePriorityMask'[c] = privatePriorityMask[c]
          /\ publicPriorityMasks'[c] = publicPriorityMasks[c] \ privatePriorityMask[c]

\* C31 as stated: every bit present at the copy ends up in the private mask,
\* and the bit of every signal whose OR takes effect between the copy and the
\* clear is still set in the public mask after the clear, that is, it is
\* none of the bits the clear takes out.
DrainKeepsLateBits ==
    [][\A c \in Cores :
          /\ CopyThenClear(c)
          /\ \A k \in Slots :
                (Draining(c) /\ OrTakesEffect(c, k)) =>
                    k \notin privatePriorityMask[c]]_vars

\* C31, amended: every bit present at the copy ends up in the private mask;
\* the bit of a signal whose OR takes effect between the copy and the clear
\* is set in the public mask from the OR to the clear, and after the clear
\* it is set in the public mask if it was not copied and in the private mask
\* if it was, so every elevation is pending in one of the two masks.
DrainLosesNoElevation ==
    [][\A c \in Cores :
          /\ CopyThenClear(c)
          /\ \A k \in Slots :
                (Draining(c) /\ OrTakesEffect(c, k)) =>
                    k \in publicPriorityMasks'[c]
          /\ (Draining(c) /\ ~Draining(c)') =>
                \A k \in publicPriorityMasks[c] :
                    IF k \in privatePriorityMask[c]
                      THEN k \in privatePriorityMask'[c] /\ k \notin publicPriorityMasks'[c]
                      ELSE k \in publicPriorityMasks'[c]]_vars

\* Between the copy and the clear of core 0 a signal has set a bit that was
\* not copied.
DrainWitness ==
    /\ Draining(0)
    /\ privatePriorityMask[0] # {}
    /\ publicPriorityMasks[0] \ privatePriorityMask[0] # {}
    /\ signalled = MaxSignals

(* -------------------------- nextCandidateIndex ------------------------- *)

\* C32: whenever dispatch() on core c picks slot k, through the priority
\* path or through the round-robin scan, nextCandidateIndex of the core is
\* (k + 1) mod maxThreadsPerCore when control passes to slot k.
WinnerAdvancesCandidate ==
    [][\A c \in Cores :
          ((PriorityStep(c) /\ pc'[c] # "d_scan") \/ ScanSelects(c)) =>
              nextCandidateIndex'[c] = (loadedContext'[c] + 1) % maxThreadsPerCore]_vars

(* ----------------------------- recycled slots -------------------------- *)

\* The step is the publication (wakeup 0) by caller e of a thread in a slot
\* that has had an earlier occupant.
PublishesRecycled(e) ==
    /\ epc[e] = "c_pub" /\ epc'[e] # "c_pub"
    /\ generation[eCore[e]][eIndex[e]] > 1

\* C33: when createThread publishes a thread in a recycled slot k, bit k is
\* clear in the private and in the public priority mask of the core,
\* whatever the interleaving of the exit of the predecessor with the signals
\* addressed to it.
NewbornHasNoPriority ==
    [][\A e \in Ext :
          PublishesRecycled(e) =>
              /\ eIndex[e] \notin publicPriorityMasks[eCore[e]]
              /\ eIndex[e] \notin privatePriorityMask[eCore[e]]]_vars

(* ------------------------------ generations ---------------------------- *)

\* Caller e is in createThread for slot k of core c, has published the
\* thread and has not yet read the generation for the ThreadId it returns.
ReturnPending(e, c, k) == epc[e] = "c_ret" /\ eCore[e] = c /\ eIndex[e] = k

\* C34: the generation of a slot changes only in the exit path of the thread
\* loaded in it, by one, while the occupancy bit of the slot is still set;
\* every successful createThread returns a ThreadId no earlier createThread
\* has returned; and the ThreadId a createThread returns is what
\* getThreadId() gives inside the thread it created, so the generation is
\* not incremented between the publication of a thread and the return of
\* its createThread, and a running thread whose createThread has returned
\* finds its own id among those returned.
GenerationIdentifiesThread ==
    /\ [][\A c \in Cores, k \in Slots :
             generation'[c][k] # generation[c][k] =>
                 /\ pc[c] = "x_gen" /\ loadedContext[c] = k
                 /\ generation'[c][k] = generation[c][k] + 1
                 /\ k \in occupied[c] /\ k \in occupied'[c]
                 /\ \A e \in Ext : ~ReturnPending(e, c, k)]_vars
    /\ [][\A e \in Ext :
             (epc[e] = "c_ret" /\ epc'[e] # "c_ret") =>
                 /\ issued' # issued
                 /\ issued' \ issued =
                       {ThreadId(eCore[e], eIndex[e], generation[eCore[e]][eIndex[e]])}]_vars
    /\ [](\A c \in Cores :
             (pc[c] = "user" /\ \A e \in Ext : ~ReturnPending(e, c, loadedContext[c])) =>
                 GetThreadId(c) \in issued)

(* ------------------------------ sleep order ---------------------------- *)

\* The thread of slot k of core c is asleep: it called sleep, has not been
\* resumed, and no signal has replaced the wake time it stored.
Asleep(c, k) ==
    /\ k \in occupied[c]
    /\ caller[c][k] = "sleep"
    /\ wakeupTimeInCycles[c][k] = sleepUntil[c][k]

\* Threads a and b of core c are asleep, a with the smaller wake time, and no
\* other thread of the core is runnable.
SleepPair(c, a, b) ==
    /\ a # b
    /\ Asleep(c, a) /\ Asleep(c, b)
    /\ wakeupTimeInCycles[c][a] < wakeupTimeInCycles[c][b]
    /\ \A j \in occupied[c] \ {a, b} : wakeupTimeInCycles[c][j] > clock

\* The step resumes slot b of core c from dispatch().
Resumes(c, b) ==
    /\ pc[c] \in {"d_scan", "d_prio"}
    /\ pc'[c] \notin DispatchPcs \cup {"exited"}
    /\ loadedContext'[c] = b

\* C35 as stated: of two threads asleep on one core with nobody else runnable
\* and no signal to them, the one with the larger wake time is not resumed
\* while the other is still asleep.
SleepersWakeInOrder ==
    [][\A c \in Cores, a \in Slots, b \in Slots :
          SleepPair(c, a, b) => ~Resumes(c, b)]_vars

\* C35, amended: the thread with the larger wake time is resumed while the
\* other is still asleep only by a scan whose clock sample has reached both
\* wake times and that meets it before the other in its order from
\* nextCandidateIndex; with a sample that has reached only the smaller wake
\* time the thread with the smaller wake time is the one resumed.
SleepersWakeWhenDue ==
    [][\A c \in Cores, a \in Slots, b \in Slots :
          (SleepPair(c, a, b) /\ Resumes(c, b)) =>
              /\ pc[c] = "d_scan"
              /\ currentCycles[c] >= wakeupTimeInCycles[c][b]
              /\ currentCycles[c] >= wakeupTimeInCycles[c][a]
              /\ ~(a \in mask[c] /\ currentIndex[c] <= a /\ a < b)]_vars

\* The thread of slot 0 has returned from its sleep while the thread of
\* slot 1, whose wake time is smaller, is still asleep.
SleepersWitness ==
    /\ pc[0] = "ret" /\ loadedContext[0] = 0 /\ caller[0][0] = "sleep"
    /\ Asleep(0, 1)
    /\ sleepUntil[0][1] < sleepUntil[0][0]
    /\ signalled = 0

(* ------------------------------- runThread ----------------------------- *)

\* The step is the return of dispatch() into schedulerMainLoop of slot k of
\* core c (line 261), which calls runThread for the slot (lines 262-263).
RunThreadCalled(c, k) ==
    /\ pc[c] \in {"d_scan", "d_prio"}
    /\ caller[c][k] = "main"
    /\ loadedContext'[c] = k
    /\ pc'[c] = "user"

\* Caller e has reserved slot k of core c and has not published the thread.
Reserving(e, c, k) == epc[e] = "c_pub" /\ eCore[e] = c /\ eIndex[e] = k

\* The step is the publication of wakeup 0 in slot k of core c by the
\* createThread that reserved the slot.
Publishes(c, k) ==
    \E e \in Ext :
        /\ Reserving(e, c, k) /\ epc'[e] = "c_ret"
        /\ k \in occupied[c]
        /\ wakeupTimeInCycles'[c][k] = 0

\* C36: schedulerMainLoop calls runThread for a slot only on the core of the
\* slot, with the slot occupied, its wakeup time 0 and no createThread still
\* filling it, and the call takes the wakeup away (BLOCKED); in a slot whose
\* main loop waits for a thread the wakeup time is changed by the publication
\* of a createThread and by nothing else, and the exit of a thread leaves
\* UNOCCUPIED there; so every call of runThread has its own publication since
\* the previous exit of the slot.
RunThreadOncePerCreate ==
    [][\A c \in Cores, k \in Slots :
          /\ RunThreadCalled(c, k) =>
                /\ k \in occupied[c]
                /\ wakeupTimeInCycles[c][k] = 0
                /\ \A e \in Ext : ~Reserving(e, c, k)
                /\ wakeupTimeInCycles'[c][k] = BLOCKED
                /\ caller'[c][k] = "run"
          /\ (caller[c][k] \in {"fresh", "main"} /\ ~RunThreadCalled(c, k)
                /\ wakeupTimeInCycles'[c][k] # wakeupTimeInCycles[c][k]) =>
                /\ wakeupTimeInCycles[c][k] = UNOCCUPIED
                /\ Publishes(c, k)
          /\ (caller[c][k] = "run" /\ caller'[c][k] = "main") =>
                /\ wakeupTimeInCycles'[c][k] \in {0, UNOCCUPIED}
                /\ wakeupTimeInCycles'[c][k] = 0 => k \in occupied[c]]_vars

\* The priority path is about to serve the bit of a recycled slot that a
\* createThread has reserved and not yet published.
RunThreadWitness ==
    \E k \in Slots :
        /\ pc[0] = "d_prio"
        /\ k \in privatePriorityMask[0]
        /\ LowestSet(privatePriorityMask[0]) = k
        /\ Reserving(1, 0, k)
        /\ generation[0][k] > 1
        /\ caller[0][k] = "main"

=========================================================================
